---- MODULE Spec2Model ----
(***************************************************************************)
(* Model of the doot lexer: the matcher engine (lexer/matchers.rs), the    *)
(* lexer modes and their matcher sets (lexer/state.rs), the literal        *)
(* parsing helpers (lexer/parsing.rs) and the tokenization driver          *)
(* Lexer::next (lexer/mod.rs).                                             *)
(*                                                                         *)
(* A character is a string (itself, or a name: NUL, BACKTICK), text is a   *)
(* sequence of characters.  Only ASCII text is modelled, so byte offsets   *)
(* and character offsets coincide.                                         *)
(***************************************************************************)
EXTENDS Integers, Sequences, FiniteSets, TLC

VARIABLES source, buffer, states, failed, panicked, last, tick, given,
          consumed, interps, yielded,
          parser_source, calls, parsed, step,
          number, probe

vars == <<source, buffer, states, failed, panicked, last, tick, given,
          consumed, interps, yielded, parser_source, calls, parsed, step,
          number, probe>>

\* the variables of the calls made on a function or on a matcher by itself
unit_vars == <<number, probe>>

\* the variables of the parser
parser_vars == <<parser_source, calls, parsed, step>>

(***************************************************************************)
(* Text helpers                                                            *)
(***************************************************************************)
NUL == "NUL"

BACKTICK == "BACKTICK"

Digits == {"0", "1", "2", "3", "4", "5", "6", "7", "8", "9"}

Letters == {"a", "b", "c", "d", "e", "f", "g", "h", "i", "j", "k", "l", "m",
            "n", "o", "p", "q", "r", "s", "t", "u", "v", "w", "x", "y", "z",
            "A", "B", "C", "D", "E", "F"}

is_whitespace(ch) == ch \in {" ", "\n", "\t", "\r"}

is_ascii_digit(ch) == ch \in Digits

is_alphabetic(ch) == ch \in Letters

is_alphanumeric(ch) == ch \in Letters \/ ch \in Digits

\* &s[from..] with a 0-based offset; a slice that starts past the end panics
\* in Rust and is reported as "PANIC" here.
SliceFrom(s, from) == SubSeq(s, from + 1, Len(s))

\* &s[from..to] with 0-based offsets, to exclusive
Slice(s, from, to) == SubSeq(s, from + 1, to)

ends_with(s, t) ==
    /\ Len(t) <= Len(s)
    /\ SubSeq(s, Len(s) - Len(t) + 1, Len(s)) = t

RECURSIVE trim_end_nul(_)
trim_end_nul(s) ==
    IF s # <<>> /\ s[Len(s)] = NUL THEN trim_end_nul(SubSeq(s, 1, Len(s) - 1))
    ELSE s

RECURSIVE remove_char(_, _)
\* The only element of a set of one element.  the({e(x) : x \in {d}}) is e(d)
\* with d evaluated once, however often e uses it.
the(S) == CHOOSE v \in S : TRUE

remove_char(s, c) ==
    IF s = <<>> THEN <<>>
    ELSE IF Head(s) = c THEN remove_char(Tail(s), c)
    ELSE <<Head(s)>> \o remove_char(Tail(s), c)

(***************************************************************************)
(* MatcherState, MatcherClass                                              *)
(***************************************************************************)
Open == "Open"
Broken == "Broken"
Closeable == "Closeable"

Fixed == "Fixed"
Dynamic == "Dynamic"

\* derive(PartialOrd, Ord) on MatcherClass: Fixed < Dynamic
ClassRank(class) == IF class = Fixed THEN 0 ELSE 1

(***************************************************************************)
(* Predicates handed to conditions, take_while and collectors.  A          *)
(* predicate is a record naming the closure; Eval applies it to            *)
(* (buffer, ch).                                                           *)
(***************************************************************************)
Eval(pred, buff, ch) ==
    CASE pred.p = "eq" -> ch = pred.c
      [] pred.p = "true" -> TRUE
      [] pred.p = "int_digits" ->
            IF Len(buff) = 1 THEN is_ascii_digit(ch)
            ELSE ch = "_" \/ is_alphanumeric(ch)
      [] pred.p = "float_digits" ->
            IF Len(buff) = 1 THEN is_ascii_digit(ch)
            ELSE ch = "_" \/ ch = "." \/ is_alphanumeric(ch)
      [] pred.p = "identifier" ->
            \/ ch = "_"
            \/ IF Len(buff) = 1 THEN is_alphabetic(ch) ELSE is_alphanumeric(ch)
      [] pred.p = "pound_or_backtick" -> ch = "#" \/ ch = BACKTICK
      [] pred.p = "not_whitespace" -> ~is_whitespace(ch)
      [] pred.p = "whitespace" -> is_whitespace(ch)
      [] pred.p = "not_ends_with" ->
            ~(\E i \in 1..Len(pred.ts) : ends_with(buff, pred.ts[i]))

(***************************************************************************)
(* MatcherStateManager.  A manager is described by a record (which         *)
(* constructor built it, with what arguments) and has a run-time state     *)
(* record: `value` (the MatcherState) plus the variables its closure       *)
(* captured.                                                               *)
(*   cond        one element of conditions(): value, consumed              *)
(*   take_while  value, count                                              *)
(*   collector   value, terminated                                         *)
(*   chain       value, current (0 = None), next (position of the          *)
(*               `states` iterator), subs (the sub-managers' states),      *)
(*               buffer_indexes (what before_switch recorded)              *)
(*   matcher     the manager ChainMatcher::new wraps around sub-matcher i: *)
(*               value, m (the sub-matcher's own state)                    *)
(* A panic is the value "Panic".                                           *)
(***************************************************************************)
Panic == "Panic"

\* a count that has to pass the minimum to be enough
check_count_above(count, min) == IF count <= min THEN Open ELSE Closeable

check_count(count, min) == IF count < min THEN Open ELSE Closeable

\* the managers constructed by MatcherStateManager::conditions
conditions(conds) ==
    [k |-> "chain",
     subs |-> [i \in 1..Len(conds) |-> [k |-> "cond", pred |-> conds[i]]],
     record |-> FALSE]

\* MatcherStateManager::text: one equality condition per character
text(src) == conditions([i \in 1..Len(src) |-> [p |-> "eq", c |-> src[i]]])

take_while(filter, min) == [k |-> "take_while", filter |-> filter, min |-> min]

filtered_collector(terminators, filter) ==
    [k |-> "collector", terminators |-> terminators, filter |-> filter]

\* first state of a chain that is not Closeable at construction (0: none)
RECURSIVE first_not_closeable(_, _)
first_not_closeable(subs, i) ==
    IF i > Len(subs) THEN 0
    ELSE IF subs[i].value # Closeable THEN i
    ELSE first_not_closeable(subs, i + 1)

RECURSIVE new(_)
new(md) ==
    CASE md.k = "cond" -> [value |-> Open, consumed |-> FALSE]
      [] md.k = "take_while" ->
            [value |-> check_count(0, md.min), count |-> 0]
      [] md.k = "collector" -> [value |-> Open, terminated |-> FALSE]
      [] md.k = "matcher" ->
            LET m == new(md.m.state) IN [value |-> m.value, m |-> m]
      [] md.k = "chain" ->
            LET subs == [i \in 1..Len(md.subs) |-> new(md.subs[i])]
                cur == first_not_closeable(subs, 1)
                seen == IF cur = 0 THEN Len(subs) ELSE cur
            IN [value |-> IF cur = 0 THEN Closeable ELSE subs[cur].value,
                current |-> cur,
                next |-> seen + 1,
                subs |-> subs,
                buffer_indexes |->
                    IF md.record THEN [i \in 1..seen |-> 0] ELSE <<>>]

RECURSIVE accept(_, _, _, _)
RECURSIVE Matcher_accept(_, _, _, _)

\* a condition that can be met any number of times
condition_again(md, st, buff, ch) ==
    IF Eval(md.pred, buff, ch)
    THEN [st EXCEPT !.consumed = TRUE, !.value = Closeable]
    ELSE [st EXCEPT !.value = Broken]

\* the closure of one condition (conditions(), inner MatcherStateManager::new)
condition_op(md, st, buff, ch) ==
    IF ~st.consumed /\ Eval(md.pred, buff, ch)
    THEN [st EXCEPT !.consumed = TRUE, !.value = Closeable]
    ELSE [st EXCEPT !.value = Broken]

\* a take_while that counts and never gets Closeable
take_while_open(md, st, buff, ch) ==
    IF Eval(md.filter, buff, ch)
    THEN [st EXCEPT !.count = st.count + 1, !.value = Open]
    ELSE [st EXCEPT !.value = Broken]

take_while_op(md, st, buff, ch) ==
    IF Eval(md.filter, buff, ch)
    THEN [st EXCEPT !.count = st.count + 1,
                    !.value = check_count(st.count + 1, md.min)]
    ELSE [st EXCEPT !.value = Broken]

\* a collector that goes on collecting after a terminator
collector_unlatched(md, st, buff, ch) ==
    IF Eval(md.filter, buff, ch)
    THEN the({[st EXCEPT !.terminated = terminated,
                         !.value = IF terminated THEN Closeable ELSE Open]
              : terminated \in
                  {\E i \in 1..Len(md.terminators) :
                      ends_with(buff, md.terminators[i])}})
    ELSE [st EXCEPT !.value = Broken]

filtered_collector_op(md, st, buff, ch) ==
    IF ~st.terminated /\ Eval(md.filter, buff, ch)
    THEN the({[st EXCEPT !.terminated = terminated,
                         !.value = IF terminated THEN Closeable ELSE Open]
              : terminated \in
                  {\E i \in 1..Len(md.terminators) :
                      ends_with(buff, md.terminators[i])}})
    ELSE [st EXCEPT !.value = Broken]

\* the manager ChainMatcher::new builds for sub-matcher i
matcher_op(md, st, buff, ch) ==
    the({[st EXCEPT !.m = m, !.value = m.value]
         : m \in {Matcher_accept(md.m, st.m, buff, ch)}})

\* a chain that stays with its current manager
chain_stay(md, st, buff, ch) ==
    IF st.current = 0 THEN [st EXCEPT !.value = Broken]
    ELSE the({[st EXCEPT !.subs[st.current] = c, !.value = c.value]
              : c \in {accept(md.subs[st.current], st.subs[st.current], buff, ch)}})

\* the closure returned by MatcherStateManager::chain
chain_op(md, st, buff, ch) ==
    IF st.current = 0 THEN [st EXCEPT !.value = Broken]
    ELSE the({IF c.value = Closeable /\ st.next <= Len(md.subs)
              THEN [st EXCEPT
                      !.subs[st.current] = c,
                      !.buffer_indexes =
                         IF md.record THEN Append(@, Len(buff)) ELSE @,
                      !.current = st.next,
                      !.next = st.next + 1,
                      !.value = st.subs[st.next].value]
              ELSE [st EXCEPT !.subs[st.current] = c, !.value = c.value]
              : c \in {accept(md.subs[st.current], st.subs[st.current], buff, ch)}})

\* an accept that a Broken manager takes like any other
accept_broken(manager, state, buffer_, ch) ==
    the({IF st.value = Panic THEN st
         ELSE IF ch = NUL THEN [st EXCEPT !.value = Broken]
         ELSE CASE md.k = "cond" -> condition_op(md, st, buff, ch)
                [] md.k = "take_while" -> take_while_op(md, st, buff, ch)
                [] md.k = "collector" -> filtered_collector_op(md, st, buff, ch)
                [] md.k = "matcher" -> matcher_op(md, st, buff, ch)
                [] md.k = "chain" -> chain_op(md, st, buff, ch)
         : md \in {manager}, st \in {state}, buff \in {buffer_}})

\* an accept for which the NUL character is a character like the others
accept_any(manager, state, buffer_, ch) ==
    the({IF st.value = Broken \/ st.value = Panic THEN [st EXCEPT !.value = Panic]
         ELSE CASE md.k = "cond" -> condition_op(md, st, buff, ch)
                [] md.k = "take_while" -> take_while_op(md, st, buff, ch)
                [] md.k = "collector" -> filtered_collector_op(md, st, buff, ch)
                [] md.k = "matcher" -> matcher_op(md, st, buff, ch)
                [] md.k = "chain" -> chain_op(md, st, buff, ch)
         : md \in {manager}, st \in {state}, buff \in {buffer_}})

\* MatcherStateManager::accept
accept(manager, state, buffer_, ch) ==
    the({IF st.value = Broken \/ st.value = Panic THEN [st EXCEPT !.value = Panic]
         ELSE IF ch = NUL THEN [st EXCEPT !.value = Broken]
         ELSE CASE md.k = "cond" -> condition_op(md, st, buff, ch)
                [] md.k = "take_while" -> take_while_op(md, st, buff, ch)
                [] md.k = "collector" -> filtered_collector_op(md, st, buff, ch)
                [] md.k = "matcher" -> matcher_op(md, st, buff, ch)
                [] md.k = "chain" -> chain_op(md, st, buff, ch)
         : md \in {manager}, st \in {state}, buff \in {buffer_}})

\* ChainMatcher::buffer_start
buffer_start(st) == st.buffer_indexes[Len(st.buffer_indexes)]

DefaultMatcher_accept(m, st, buff, ch) == accept(m.state, st, buff, ch)

ChainMatcher_accept(m, st, buff, ch) ==
    IF st.buffer_indexes = <<>> \/ buffer_start(st) > Len(buff)
    THEN [st EXCEPT !.value = Panic]
    ELSE accept(m.state, st, SliceFrom(buff, buffer_start(st)), ch)

\* Matcher::accept, dispatched on the implementing type
Matcher_accept(m, st, buff, ch) ==
    IF m.kind = "chain" THEN ChainMatcher_accept(m, st, buff, ch)
    ELSE DefaultMatcher_accept(m, st, buff, ch)

(***************************************************************************)
(* LexerState and LexerStateManager.  The list of modes is a sequence      *)
(* whose head is the front of the LinkedList (the top of the stack).       *)
(***************************************************************************)
\* a Normal mode that always takes itself to be inside a string
Normal_in_string(from_string) == [m |-> "Normal", from_string |-> TRUE]

Normal(from_string) == [m |-> "Normal", from_string |-> from_string]

CompositeString == [m |-> "CompositeString"]

RawString(pounds) == [m |-> "RawString", pounds |-> pounds]

Comment(terminator) == [m |-> "Comment", terminator |-> terminator]

LexerStateManager_new == <<Normal(FALSE)>>

\* the mode at the wrong end of the list
get_back(sts) == sts[Len(sts)]

get(sts) == Head(sts)

\* a push at the wrong end of the list
push_back(sts, state) == sts \o <<state>>

\* a push that is forgotten
push_nothing(sts, state) == sts

push(sts, state) == <<state>> \o sts

\* pop panics when fewer than two modes are left
pop_panics(sts) == Len(sts) < 2

\* a pop that is forgotten
pop_nothing(sts) == sts

pop(sts) == Tail(sts)

\* a lexer that skips no whitespace
ignore_nothing(mode) == FALSE

\* a lexer that skips leading whitespace in every mode
ignore_always(mode) == TRUE

ignore_whitespace(mode) == mode.m = "Normal"

(***************************************************************************)
(* Tokens and errors                                                       *)
(***************************************************************************)
Tok(kind, txt) == [kind |-> kind, text |-> txt]

NumTok(kind, num) == [kind |-> kind, text |-> <<>>, num |-> num]

Err(kind, txt) == [kind |-> kind, text |-> txt]

(***************************************************************************)
(* lexer/parsing.rs                                                        *)
(***************************************************************************)
DigitValue(ch) ==
    CASE ch = "0" -> 0 [] ch = "1" -> 1 [] ch = "2" -> 2 [] ch = "3" -> 3
      [] ch = "4" -> 4 [] ch = "5" -> 5 [] ch = "6" -> 6 [] ch = "7" -> 7
      [] ch = "8" -> 8 [] ch = "9" -> 9
      [] ch \in {"a", "A"} -> 10 [] ch \in {"b", "B"} -> 11
      [] ch \in {"c", "C"} -> 12 [] ch \in {"d", "D"} -> 13
      [] ch \in {"e", "E"} -> 14 [] ch \in {"f", "F"} -> 15
      [] OTHER -> 99

\* an escape table without the escaped dollar
escape_no_dollar(src) ==
    CASE src = <<"\\", "n">> -> [ok |-> TRUE, val |-> "\n"]
      [] src = <<"\\", "r">> -> [ok |-> TRUE, val |-> "\r"]
      [] src = <<"\\", "t">> -> [ok |-> TRUE, val |-> "\t"]
      [] src = <<"\\", "\\">> -> [ok |-> TRUE, val |-> "\\"]
      [] src = <<"\\", "0">> -> [ok |-> TRUE, val |-> NUL]
      [] src = <<"\\", "u">> -> [ok |-> FALSE, err |-> Err("NoValue", src)]
      [] OTHER -> [ok |-> FALSE, err |-> Err("InvalidEscape", src)]

escape(src) ==
    CASE src = <<"\\", "n">> -> [ok |-> TRUE, val |-> "\n"]
      [] src = <<"\\", "r">> -> [ok |-> TRUE, val |-> "\r"]
      [] src = <<"\\", "t">> -> [ok |-> TRUE, val |-> "\t"]
      [] src = <<"\\", "\\">> -> [ok |-> TRUE, val |-> "\\"]
      [] src = <<"\\", "0">> -> [ok |-> TRUE, val |-> NUL]
      [] src = <<"\\", "$">> -> [ok |-> TRUE, val |-> "$"]
      [] src = <<"\\", "u">> -> [ok |-> FALSE, err |-> Err("NoValue", src)]
      [] OTHER -> [ok |-> FALSE, err |-> Err("InvalidEscape", src)]

\* a cleaning that keeps the underscores
keep_source(src) == src

clean_source(src) == remove_char(src, "_")

\* the value of a non-empty run of digits of the radix, most significant first
RECURSIVE DigitsValue(_, _, _)
DigitsValue(ds, radix, acc) ==
    IF ds = <<>> THEN acc
    ELSE DigitsValue(Tail(ds), radix, acc * radix + DigitValue(Head(ds)))

\* i64::from_str_radix on sign followed by digits, mapped by map_int_error.
\* The magnitudes the model's inputs reach stay far below 2^63, so the
\* overflow kinds are decided by the digit count alone.
MaxI64Digits(radix) ==
    CASE radix = 2 -> 63 [] radix = 8 -> 21 [] radix = 10 -> 18 [] radix = 16 -> 15

RECURSIVE strip_zeros(_)
strip_zeros(ds) ==
    IF ds # <<>> /\ Head(ds) = "0" THEN strip_zeros(Tail(ds)) ELSE ds

from_str_radix(sign, ds, radix) ==
    IF ds = <<>> \/ \E i \in 1..Len(ds) : DigitValue(ds[i]) >= radix
    THEN [ok |-> FALSE, err |-> Err("InvalidInt", <<>>)]
    ELSE IF Len(strip_zeros(ds)) > MaxI64Digits(radix)
    THEN [ok |-> FALSE,
          err |-> Err(IF sign = "-" THEN "NegativeOverflow"
                      ELSE "PositiveOverflow", <<>>)]
    ELSE LET v == DigitsValue(strip_zeros(ds), radix, 0)
         IN [ok |-> TRUE, val |-> IF sign = "-" THEN 0 - v ELSE v]

parse_int(src) ==
    LET cleaned == clean_source(src)
        signed == cleaned # <<>> /\ Head(cleaned) \in {"+", "-"}
        sign == IF signed THEN Head(cleaned) ELSE "+"
        rest == IF signed THEN Tail(cleaned) ELSE cleaned
    IN IF cleaned = <<>> \/ (~signed /\ ~is_ascii_digit(Head(cleaned)))
       THEN [ok |-> FALSE, err |-> Err("InvalidInt", <<>>)]
       ELSE IF rest = <<>> THEN [ok |-> FALSE, err |-> Err("InvalidInt", <<>>)]
       ELSE IF Head(rest) = "0"
       THEN IF Len(rest) = 1 THEN [ok |-> TRUE, val |-> 0]
            ELSE LET radix == rest[2]
                 IN CASE radix = "b" -> from_str_radix(sign, SliceFrom(rest, 2), 2)
                      [] radix = "o" -> from_str_radix(sign, SliceFrom(rest, 2), 8)
                      [] radix = "x" -> from_str_radix(sign, SliceFrom(rest, 2), 16)
                      [] is_ascii_digit(radix) -> from_str_radix(sign, rest, 10)
                      [] OTHER -> [ok |-> FALSE,
                                   err |-> Err("InvalidRadix", <<radix>>)]
       ELSE IF is_ascii_digit(Head(rest)) THEN from_str_radix(sign, rest, 10)
       ELSE [ok |-> FALSE, err |-> Err("InvalidInt", <<>>)]

\* position of the first element of s in set S, or 0
RECURSIVE index_of(_, _, _)
index_of(s, S, i) ==
    IF i > Len(s) THEN 0 ELSE IF s[i] \in S THEN i ELSE index_of(s, S, i + 1)

all_digits(s) == \A i \in 1..Len(s) : is_ascii_digit(s[i])

RECURSIVE strip_trailing_zeros(_)
strip_trailing_zeros(ds) ==
    IF ds # <<>> /\ ds[Len(ds)] = "0"
    THEN strip_trailing_zeros(SubSeq(ds, 1, Len(ds) - 1)) ELSE ds

\* f64::from_str on the cleaned text.  A finite value is kept exactly, as the
\* decimal <<sign, significant digits, exponent of the last digit>>.
parse_float(src) ==
    LET cleaned == clean_source(src)
        signed == cleaned # <<>> /\ Head(cleaned) \in {"+", "-"}
        sign == IF signed THEN Head(cleaned) ELSE "+"
        body == IF signed THEN Tail(cleaned) ELSE cleaned
        e == index_of(body, {"e", "E"}, 1)
        mant == IF e = 0 THEN body ELSE SubSeq(body, 1, e - 1)
        expo == IF e = 0 THEN <<>> ELSE SliceFrom(body, e)
        esigned == expo # <<>> /\ Head(expo) \in {"+", "-"}
        edigits == IF esigned THEN Tail(expo) ELSE expo
        dot == index_of(mant, {"."}, 1)
        int == IF dot = 0 THEN mant ELSE SubSeq(mant, 1, dot - 1)
        frac == IF dot = 0 THEN <<>> ELSE SliceFrom(mant, dot)
        invalid == [ok |-> FALSE, err |-> Err("InvalidFloat", <<>>)]
    IN IF body \in {<<"i", "n", "f">>, <<"i", "n", "f", "i", "n", "i", "t", "y">>}
       THEN [ok |-> FALSE,
             err |-> Err(IF sign = "-" THEN "NegativeOverflow"
                         ELSE "PositiveOverflow", <<>>)]
       ELSE IF body = <<"n", "a", "n">> THEN [ok |-> TRUE, val |-> <<"NaN">>]
       ELSE IF \/ ~all_digits(int) \/ ~all_digits(frac)
               \/ (int = <<>> /\ frac = <<>>)
               \/ (e # 0 /\ (edigits = <<>> \/ ~all_digits(edigits)))
       THEN invalid
       ELSE LET sig == strip_zeros(strip_trailing_zeros(int \o frac))
                shift == Len(int \o frac) - Len(strip_trailing_zeros(int \o frac))
                ev == IF e = 0 THEN 0
                      ELSE IF esigned /\ Head(expo) = "-"
                           THEN 0 - DigitsValue(edigits, 10, 0)
                           ELSE DigitsValue(edigits, 10, 0)
                exp10 == ev - Len(frac) + shift
            IN IF sig = <<>> THEN [ok |-> TRUE, val |-> <<sign, <<>>, 0>>]
               ELSE IF Len(sig) + exp10 > 309
               THEN [ok |-> FALSE,
                     err |-> Err(IF sign = "-" THEN "NegativeOverflow"
                                 ELSE "PositiveOverflow", <<>>)]
               ELSE [ok |-> TRUE, val |-> <<sign, sig, exp10>>]

\* char::from_u32 of a scalar value, as a character of the model
char_from_u32(code) ==
    CASE code = 0 -> NUL
      [] code = 32 -> " "
      [] code = 36 -> "$"
      [] code = 65 -> "A"
      [] code = 97 -> "a"
      [] OTHER -> "U+" \o ToString(code)

parse_unicode(hex) ==
    LET ds == IF hex # <<>> /\ Head(hex) = "+" THEN Tail(hex) ELSE hex
        sig == strip_zeros(ds)
    IN IF \/ ds = <<>>
          \/ \E i \in 1..Len(ds) : DigitValue(ds[i]) >= 16
          \/ Len(sig) > 8
       THEN [ok |-> FALSE, err |-> Err("InvalidHex", hex)]
       ELSE IF Len(sig) > 6 THEN [ok |-> FALSE, err |-> Err("InvalidValue", hex)]
       ELSE LET code == DigitsValue(sig, 16, 0)
            IN IF code > 1114111 \/ (code >= 55296 /\ code <= 57343)
               THEN [ok |-> FALSE, err |-> Err("InvalidValue", hex)]
               ELSE [ok |-> TRUE, val |-> char_from_u32(code)]

(***************************************************************************)
(* Closers.  A closer is a record naming the closure handed to a matcher   *)
(* constructor; closer applies it.  `value` is the text the closer is      *)
(* given, `results` the sub-results a chain closer is given, `sts` the     *)
(* mode stack.  The result is [ok, val | err, sts, panic].                 *)
(***************************************************************************)
Done(val, sts) == [ok |-> TRUE, val |-> val, sts |-> sts, panic |-> FALSE]

\* a closer that fails after it has pushed a mode
Fail_pushed(err, sts) ==
    [ok |-> FALSE, err |-> err, sts |-> push(sts, CompositeString),
     panic |-> FALSE]

Fail(err, sts) == [ok |-> FALSE, err |-> err, sts |-> sts, panic |-> FALSE]

Panicked(sts) == [ok |-> FALSE, err |-> Err("Panic", <<>>), sts |-> sts, panic |-> TRUE]

FromParse(r, kind, errKind, sts) ==
    IF r.ok THEN Done(NumTok(kind, r.val), sts)
    ELSE Fail([kind |-> errKind, text |-> r.err.text, why |-> r.err.kind], sts)

closer(cd, value, results, sts) ==
    CASE cd.c = "simple" -> Done(cd.tok, sts)
      [] cd.c = "left_brace" ->
            Done(Tok("LeftBrace", <<>>),
                 IF cd.from_string THEN push(sts, Normal(TRUE)) ELSE sts)
      [] cd.c = "right_brace" ->
            IF cd.from_string /\ pop_panics(sts) THEN Panicked(sts)
            ELSE Done(Tok("RightBrace", <<>>),
                      IF cd.from_string THEN pop(sts) ELSE sts)
      [] cd.c = "push" -> Done(cd.tok, push(sts, cd.mode))
      [] cd.c = "pop" ->
            IF pop_panics(sts) THEN Panicked(sts) ELSE Done(cd.tok, pop(sts))
      [] cd.c = "raw_open" ->
            Done(Tok("StringOpen", <<>>), push(sts, RawString(Len(value))))
      [] cd.c = "token" -> Done(Tok(cd.kind, value), sts)
      [] cd.c = "string" -> Done(value, sts)
      [] cd.c = "parse_int" ->
            FromParse(parse_int(value), "IntLiteral", "NumberParse", sts)
      [] cd.c = "parse_float" ->
            FromParse(parse_float(value), "FloatLiteral", "NumberParse", sts)
      [] cd.c = "escape" ->
            LET r == escape(results[1] \o results[2])
            IN IF r.ok THEN Done(Tok("StringLiteral", <<r.val>>), sts)
               ELSE Fail([kind |-> "EscapeParse", text |-> r.err.text,
                          why |-> r.err.kind], sts)
      [] cd.c = "no_escape" -> Fail(Err("NoEscape", <<>>), sts)
      [] cd.c = "parse_unicode" ->
            LET r == parse_unicode(value)
            IN IF r.ok THEN Done(<<r.val>>, sts)
               ELSE Fail([kind |-> "UnicodeParse", text |-> r.err.text,
                          why |-> r.err.kind], sts)
      [] cd.c = "unicode" -> Done(Tok("StringLiteral", results[2]), sts)

(***************************************************************************)
(* DefaultMatcher and ChainMatcher.  A matcher is described by a record:   *)
(* kind ("default" or "chain"), class, state (its manager), closer, and    *)
(* how close computes n_consumed ("full": full_match_closer; "collector":  *)
(* the closure of DefaultMatcher::filtered_collector).                     *)
(***************************************************************************)
DefaultMatcher_new(class, state, close, cl) ==
    [kind |-> "default", class |-> class, state |-> state, close |-> close,
     closer |-> cl]

DefaultMatcher_conditions(conds, cl) ==
    DefaultMatcher_new(Dynamic, conditions(conds), [f |-> "full"], cl)

DefaultMatcher_text(src, cl) ==
    DefaultMatcher_new(Fixed, text(src), [f |-> "full"], cl)

DefaultMatcher_simple_text(src, result) ==
    DefaultMatcher_text(src, [c |-> "simple", tok |-> result])

\* DefaultMatcher::fixed_text is used by lexer/state.rs; it is the String
\* matcher for a fixed text (text_string: the text is its own result).
DefaultMatcher_fixed_text(value) == DefaultMatcher_simple_text(value, value)

DefaultMatcher_filtered_collector(terminators, filter, consume_terminator, cl) ==
    DefaultMatcher_new(Dynamic, filtered_collector(terminators, filter),
                       [f |-> "collector", terminators |-> terminators,
                        consume_terminator |-> consume_terminator], cl)

DefaultMatcher_collector(terminators, consume_terminator, cl) ==
    DefaultMatcher_filtered_collector(terminators, [p |-> "true"],
                                      consume_terminator, cl)

DefaultMatcher_take_while(filter, min, cl) ==
    DefaultMatcher_new(Dynamic, take_while(filter, min), [f |-> "full"], cl)

ChainMatcher_new(ms, cl) ==
    [kind |-> "chain", class |-> Dynamic, matchers |-> ms,
     state |-> [k |-> "chain",
                subs |-> [i \in 1..Len(ms) |-> [k |-> "matcher", m |-> ms[i]]],
                record |-> TRUE],
     closer |-> cl]

\* a matcher's initial state
Matcher_new(m) == new(m.state)

\* Matcher::state
Matcher_state(st) == st.value

\* the first terminator the buffer ends with (0: none, where find().unwrap()
\* panics)
RECURSIVE find_terminator(_, _, _)
find_terminator(terminators, buff, i) ==
    IF i > Len(terminators) THEN 0
    ELSE IF ends_with(buff, terminators[i]) THEN i
    ELSE find_terminator(terminators, buff, i + 1)

\* the result of Matcher::close: [ok, val | err, n, sts, panic]
DefaultMatcher_close(m, st, buff, sts) ==
    IF m.close.f = "full"
    THEN LET r == closer(m.closer, buff, <<>>, sts)
         IN [ok |-> r.ok, val |-> IF r.ok THEN r.val ELSE r.err,
             n |-> Len(buff), sts |-> r.sts, panic |-> r.panic]
    ELSE LET t == find_terminator(m.close.terminators, buff, 1)
         IN IF t = 0
            THEN [ok |-> FALSE, val |-> Err("Panic", <<>>), n |-> 0,
                  sts |-> sts, panic |-> TRUE]
            ELSE LET value == SubSeq(buff, 1,
                                     Len(buff) - Len(m.close.terminators[t]))
                     r == closer(m.closer, value, <<>>, sts)
                 IN [ok |-> r.ok, val |-> IF r.ok THEN r.val ELSE r.err,
                     n |-> IF m.close.consume_terminator THEN Len(buff)
                           ELSE Len(value),
                     sts |-> r.sts, panic |-> r.panic]

RECURSIVE Matcher_close(_, _, _, _)

\* std::array::from_fn over the sub-matchers: sub-matcher i is closed on
\* buffer[indexes[i]..indexes[i + 1]]; every sub-matcher is closed, in order,
\* on the same mode stack.
RECURSIVE close_subs(_, _, _, _, _, _)
close_subs(m, st, buff, indexes, i, acc) ==
    IF i > Len(m.matchers) \/ acc.panic THEN acc
    ELSE IF i + 1 > Len(indexes) \/ indexes[i] > indexes[i + 1]
            \/ indexes[i + 1] > Len(buff)
    THEN [acc EXCEPT !.panic = TRUE]
    ELSE LET r == Matcher_close(m.matchers[i], st.subs[i].m,
                                Slice(buff, indexes[i], indexes[i + 1]), acc.sts)
         IN close_subs(m, st, buff, indexes, i + 1,
                       [results |-> Append(acc.results, r),
                        sts |-> r.sts,
                        panic |-> r.panic])

\* a close that returns the error of the last sub-matcher that failed
ChainMatcher_close_last(m, st, buff, sts) ==
    LET indexes == Append(st.buffer_indexes, Len(buff))
        subs == close_subs(m, st, buff, indexes, 1,
                           [results |-> <<>>, sts |-> sts, panic |-> FALSE])
        bad == {i \in 1..Len(subs.results) : ~subs.results[i].ok}
    IN IF subs.panic
       THEN [ok |-> FALSE, val |-> Err("Panic", <<>>), n |-> 0,
             sts |-> subs.sts, panic |-> TRUE]
       ELSE IF bad # {}
       THEN [ok |-> FALSE,
             val |-> subs.results[CHOOSE i \in bad : \A j \in bad : i >= j].val,
             n |-> 0, sts |-> subs.sts, panic |-> FALSE]
       ELSE LET r == closer(m.closer, buff,
                            [i \in 1..Len(subs.results) |-> subs.results[i].val],
                            subs.sts)
            IN [ok |-> r.ok, val |-> IF r.ok THEN r.val ELSE r.err,
                n |-> Len(buff), sts |-> r.sts, panic |-> r.panic]

ChainMatcher_close(m, st, buff, sts) ==
    LET indexes == Append(st.buffer_indexes, Len(buff))
        subs == close_subs(m, st, buff, indexes, 1,
                           [results |-> <<>>, sts |-> sts, panic |-> FALSE])
        bad == {i \in 1..Len(subs.results) : ~subs.results[i].ok}
    IN IF subs.panic
       THEN [ok |-> FALSE, val |-> Err("Panic", <<>>), n |-> 0,
             sts |-> subs.sts, panic |-> TRUE]
       ELSE IF bad # {}
       THEN [ok |-> FALSE,
             val |-> subs.results[CHOOSE i \in bad : \A j \in bad : i <= j].val,
             n |-> 0, sts |-> subs.sts, panic |-> FALSE]
       ELSE LET r == closer(m.closer, buff,
                            [i \in 1..Len(subs.results) |-> subs.results[i].val],
                            subs.sts)
            IN [ok |-> r.ok, val |-> IF r.ok THEN r.val ELSE r.err,
                n |-> Len(buff), sts |-> r.sts, panic |-> r.panic]

Matcher_close(m, st, buff, sts) ==
    IF m.kind = "chain" THEN ChainMatcher_close(m, st, buff, sts)
    ELSE DefaultMatcher_close(m, st, buff, sts)

(***************************************************************************)
(* LexerState::matchers                                                    *)
(***************************************************************************)
\* an integer literal that takes no sign
int_unsigned(prefix) ==
    ChainMatcher_new(
        <<DefaultMatcher_fixed_text(<<>>),
          DefaultMatcher_take_while([p |-> "int_digits"], 1, [c |-> "string"])>>,
        [c |-> "parse_int"])

int_literal(prefix) ==
    ChainMatcher_new(
        <<DefaultMatcher_fixed_text(prefix),
          DefaultMatcher_take_while([p |-> "int_digits"], 1, [c |-> "string"])>>,
        [c |-> "parse_int"])

float_literal(prefix) ==
    ChainMatcher_new(
        <<DefaultMatcher_fixed_text(prefix),
          DefaultMatcher_take_while([p |-> "float_digits"], 1, [c |-> "string"])>>,
        [c |-> "parse_float"])

Simple(src, kind) == DefaultMatcher_simple_text(src, Tok(kind, <<>>))

matchers_Normal(from_string) ==
    << \* symbols
       Simple(<<"+">>, "Plus"),
       Simple(<<"-">>, "Minus"),
       Simple(<<"*">>, "Asterisk"),
       Simple(<<"/">>, "Slash"),
       Simple(<<"(">>, "LeftParen"),
       Simple(<<")">>, "RightParen"),
       Simple(<<"[">>, "LeftSquare"),
       Simple(<<"]">>, "RightSquare"),
       DefaultMatcher_text(<<"{">>, [c |-> "left_brace", from_string |-> from_string]),
       DefaultMatcher_text(<<"}">>, [c |-> "right_brace", from_string |-> from_string]),
       Simple(<<",">>, "Comma"),
       Simple(<<".">>, "Dot"),
       Simple(<<"=">>, "Equal"),
       Simple(<<"=", "=">>, "DoubleEqual"),
       Simple(<<"!">>, "Bang"),
       Simple(<<"!", "=">>, "BangEqual"),
       Simple(<<">">>, "Greater"),
       Simple(<<">", "=">>, "GreaterEqual"),
       Simple(<<"<">>, "Less"),
       Simple(<<"<", "=">>, "LessEqual"),
       Simple(<<"&">>, "Ampersand"),
       Simple(<<"&", "&">>, "DoubleAmpersand"),
       Simple(<<"|">>, "Pipe"),
       Simple(<<"|", "|">>, "DoublePipe"),
       DefaultMatcher_text(<<"\"">>,
           [c |-> "push", mode |-> CompositeString, tok |-> Tok("StringOpen", <<>>)]),
       DefaultMatcher_filtered_collector(<< <<BACKTICK>> >>,
           [p |-> "pound_or_backtick"], TRUE, [c |-> "raw_open"]),
       \* keywords
       Simple(<<"l", "e", "t">>, "Let"),
       Simple(<<"v", "a", "r">>, "Var"),
       Simple(<<"c", "o", "n", "s", "t">>, "Const"),
       Simple(<<"i", "f">>, "If"),
       Simple(<<"e", "l", "s", "e">>, "Else"),
       Simple(<<"f", "o", "r">>, "For"),
       Simple(<<"w", "h", "i", "l", "e">>, "While"),
       Simple(<<"c", "l", "a", "s", "s">>, "Class"),
       Simple(<<"f", "n">>, "Fn"),
       Simple(<<"r", "e", "t", "u", "r", "n">>, "Return"),
       \* literals
       Simple(<<"n", "u", "l", "l">>, "Null"),
       DefaultMatcher_simple_text(<<"t", "r", "u", "e">>,
                                  Tok("BoolLiteral", <<"true">>)),
       DefaultMatcher_simple_text(<<"f", "a", "l", "s", "e">>,
                                  Tok("BoolLiteral", <<"false">>)),
       DefaultMatcher_take_while([p |-> "identifier"], 1,
                                 [c |-> "token", kind |-> "Identifier"]),
       int_literal(<<>>),
       int_literal(<<"-">>),
       float_literal(<<>>),
       float_literal(<<"-">>),
       DefaultMatcher_text(<<"/", "/">>,
           [c |-> "push", mode |-> Comment(<<"\n">>),
            tok |-> Tok("LineCommentOpen", <<>>)]),
       DefaultMatcher_text(<<"/", "*">>,
           [c |-> "push", mode |-> Comment(<<"*", "/">>),
            tok |-> Tok("BlockCommentOpen", <<>>)]) >>

StringTerminators == << <<"\"">>, <<"$", "{">>, <<"\\">> >>

matchers_CompositeString ==
    << \* unclosed string literals
       DefaultMatcher_take_while([p |-> "not_ends_with", ts |-> StringTerminators],
                                 0, [c |-> "token", kind |-> "StringLiteral"]),
       DefaultMatcher_collector(StringTerminators, FALSE,
                                [c |-> "token", kind |-> "StringLiteral"]),
       DefaultMatcher_text(<<"\"">>, [c |-> "pop", tok |-> Tok("StringClose", <<>>)]),
       DefaultMatcher_text(<<"$", "{">>,
           [c |-> "push", mode |-> Normal(TRUE),
            tok |-> Tok("DollarLeftBrace", <<>>)]),
       ChainMatcher_new(
           <<DefaultMatcher_fixed_text(<<"\\">>),
             DefaultMatcher_conditions(<<[p |-> "not_whitespace"]>>,
                                       [c |-> "string"])>>,
           [c |-> "escape"]),
       ChainMatcher_new(
           <<DefaultMatcher_fixed_text(<<"\\">>),
             DefaultMatcher_conditions(<<[p |-> "whitespace"]>>,
                                       [c |-> "string"])>>,
           [c |-> "no_escape"]),
       ChainMatcher_new(
           <<DefaultMatcher_fixed_text(<<"\\", "u", "{">>),
             DefaultMatcher_filtered_collector(<< <<"}">> >>,
                 [p |-> "not_whitespace"], TRUE, [c |-> "parse_unicode"])>>,
           [c |-> "unicode"]) >>

\* a terminator that leaves the pounds out
backtick_only(pounds) == <<BACKTICK>>

\* a backtick followed by # `pounds` times
pound_terminator(pounds) == <<BACKTICK>> \o [i \in 1..pounds |-> "#"]

matchers_RawString(pounds) ==
    << DefaultMatcher_collector(<<pound_terminator(pounds)>>, FALSE,
                                [c |-> "token", kind |-> "StringLiteral"]),
       DefaultMatcher_text(pound_terminator(pounds),
                           [c |-> "pop", tok |-> Tok("StringClose", <<>>)]),
       \* unclosed string literals
       DefaultMatcher_take_while(
           [p |-> "not_ends_with", ts |-> <<pound_terminator(pounds)>>],
           0, [c |-> "token", kind |-> "StringLiteral"]) >>

matchers_Comment(terminator) ==
    << DefaultMatcher_collector(<<terminator>>, FALSE,
                                [c |-> "token", kind |-> "CommentLiteral"]),
       DefaultMatcher_text(terminator,
                           [c |-> "pop", tok |-> Tok("CommentClose", <<>>)]),
       DefaultMatcher_take_while([p |-> "not_ends_with", ts |-> <<terminator>>],
                                 0, [c |-> "token", kind |-> "CommentLiteral"]) >>

\* the two Normal matcher lists, built once
matchers_Normal_false == matchers_Normal(FALSE)

matchers_Normal_true == matchers_Normal(TRUE)

matchers(mode) ==
    CASE mode.m = "Normal" ->
            IF mode.from_string THEN matchers_Normal_true
            ELSE matchers_Normal_false
      [] mode.m = "CompositeString" -> matchers_CompositeString
      [] mode.m = "RawString" -> matchers_RawString(mode.pounds)
      [] mode.m = "Comment" -> matchers_Comment(mode.terminator)

(***************************************************************************)
(* Lexer::next                                                             *)
(***************************************************************************)
\* a buffer that keeps its NUL characters
keep_buffer(buff) == buff

\* Lexer::clean_buffer
clean_buffer(buff) == trim_end_nul(buff)

\* the winners left in the order of the matcher list
unsorted(ms, cs) == cs

\* a sort that puts Dynamic before Fixed
sort_dynamic_first(ms, cs) ==
    LET IsFixed(c) == ClassRank(ms[c.i].class) = 0
        IsDynamic(c) == ClassRank(ms[c.i].class) # 0
    IN SelectSeq(cs, IsDynamic) \o SelectSeq(cs, IsFixed)

\* a sort that puts the Dynamic matcher declared last in front of the others
sort_latest_first(ms, cs) ==
    LET IsFixed(c) == ClassRank(ms[c.i].class) = 0
        IsDynamic(c) == ClassRank(ms[c.i].class) # 0
        dynamic == SelectSeq(cs, IsDynamic)
    IN SelectSeq(cs, IsFixed)
       \o [k \in 1..Len(dynamic) |-> dynamic[Len(dynamic) + 1 - k]]

\* matchers.sort_by(class): a stable sort, Fixed before Dynamic
sort_by_class(ms, cs) ==
    LET IsFixed(c) == ClassRank(ms[c.i].class) = 0
        IsDynamic(c) == ClassRank(ms[c.i].class) # 0
    IN SelectSeq(cs, IsFixed) \o SelectSeq(cs, IsDynamic)

\* a loop that leaves the Broken candidates in the running
prune_nothing(cs) == cs

\* the candidates left in the running after a character
prune(cs) ==
    LET Alive(c) == Matcher_state(c.st) # Broken
    IN IF \E i \in 1..Len(cs) : Alive(cs[i]) THEN SelectSeq(cs, Alive) ELSE cs

\* the negation of `candidates.iter().any(|c| *c.matcher.state() != Broken)`
all_broken(cs) == \A j \in 1..Len(cs) : Matcher_state(cs[j].st) = Broken

\* a drain that empties the buffer
drain_all(buff, n) == <<>>

\* self.buffer.drain(..n_drained)
drain(buff, n) == SliceFrom(buff, n)

\* a filter that lets every candidate through
was_candidate(c) == TRUE

\* .filter(|c| c.previous_state == Some(MatcherState::Closeable))
was_closeable(c) == c.previous_state = Closeable

\* a lexer that forgets that it failed
inspect_err_never(ok) == FALSE

\* .inspect_err(|_| self.failed = true): the value of failed after a result
inspect_err(ok) == ~ok

\* a resolution that passes over the candidates whose close fails while
\* the close of another succeeds
resolve_retry(ms, cs, buff, sts) ==
    the({
       IF sorted = <<>>
       THEN [kind |-> "err", val |-> Err("InvalidToken", clean_buffer(buff)),
             buffer |-> buff, states |-> sts, failed |-> inspect_err(FALSE),
             panic |-> FALSE, n |-> 0, winner |-> 0, closeable |-> <<>>]
       ELSE the({[kind |-> IF r.panic \/ (r.ok /\ r.n > Len(buff)) THEN "panic"
                           ELSE IF r.ok THEN "ok" ELSE "err",
                  val |-> r.val,
                  buffer |-> IF r.ok /\ r.n <= Len(buff)
                             THEN drain(buff, r.n) ELSE buff,
                  states |-> r.sts,
                  failed |-> inspect_err(r.ok),
                  panic |-> r.panic \/ (r.ok /\ r.n > Len(buff)),
                  n |-> IF r.ok THEN r.n ELSE 0,
                  winner |-> Head(sorted).i,
                  closeable |-> [j \in 1..Len(closeable) |-> closeable[j].i]]
                 : r \in {Matcher_close(ms[Head(sorted).i], Head(sorted).st,
                                        SubSeq(buff, 1, Len(buff) - 1), sts)}})
       : closeable \in {SelectSeq(cs, was_closeable)},
         sorted \in {LET closes(c) ==
                            Matcher_close(ms[c.i], c.st,
                                          SubSeq(buff, 1, Len(buff) - 1), sts).ok
                        all == sort_by_class(ms, SelectSeq(cs, was_closeable))
                    IN IF SelectSeq(all, closes) = <<>> THEN all
                       ELSE SelectSeq(all, closes)}})

\* the else branch of the loop body: every candidate broke on the last
\* character of buff
resolve(ms, cs, buff, sts) ==
    the({
       IF sorted = <<>>
       THEN [kind |-> "err", val |-> Err("InvalidToken", clean_buffer(buff)),
             buffer |-> buff, states |-> sts, failed |-> inspect_err(FALSE),
             panic |-> FALSE, n |-> 0, winner |-> 0, closeable |-> <<>>]
       ELSE the({[kind |-> IF r.panic \/ (r.ok /\ r.n > Len(buff)) THEN "panic"
                           ELSE IF r.ok THEN "ok" ELSE "err",
                  val |-> r.val,
                  buffer |-> IF r.ok /\ r.n <= Len(buff)
                             THEN drain(buff, r.n) ELSE buff,
                  states |-> r.sts,
                  failed |-> inspect_err(r.ok),
                  panic |-> r.panic \/ (r.ok /\ r.n > Len(buff)),
                  n |-> IF r.ok THEN r.n ELSE 0,
                  winner |-> Head(sorted).i,
                  closeable |-> [j \in 1..Len(closeable) |-> closeable[j].i]]
                 : r \in {Matcher_close(ms[Head(sorted).i], Head(sorted).st,
                                        SubSeq(buff, 1, Len(buff) - 1), sts)}})
       : closeable \in {SelectSeq(cs, was_closeable)},
         sorted \in {sort_by_class(ms, SelectSeq(cs, was_closeable))}})

\* a loop that offers a character before it is pushed onto the buffer
RECURSIVE next_loop_before(_, _, _, _, _, _, _)
next_loop_before(ms, sts, input, pos, matching, buff, cs) ==
    IF pos > Len(input)
    THEN [kind |-> "none", val |-> Err("None", <<>>), buffer |-> buff,
          states |-> sts, failed |-> FALSE, panic |-> FALSE, n |-> 0,
          winner |-> 0, closeable |-> <<>>, pulled |-> Len(input),
          skipped |-> pos - 1 - Len(buff)]
    ELSE IF ~matching /\ (input[pos] = NUL
                           \/ (ignore_whitespace(get(sts)) /\ is_whitespace(input[pos])))
    THEN next_loop_before(ms, sts, input, pos + 1, matching, buff, cs)
    ELSE the({
       IF \E j \in 1..Len(cs1) : Matcher_state(cs1[j].st) = Panic
       THEN [kind |-> "panic", val |-> Err("Panic", <<>>), buffer |-> buff1,
             states |-> sts, failed |-> FALSE, panic |-> TRUE, n |-> 0,
             winner |-> 0, closeable |-> <<>>, pulled |-> pos,
             skipped |-> pos - Len(buff1)]
       ELSE IF ~all_broken(cs1)
       THEN the({next_loop_before(ms, sts, input, pos + 1, TRUE, buff1, cs2)
                 : cs2 \in {prune(cs1)}})
       ELSE the({[kind |-> r.kind, val |-> r.val, buffer |-> r.buffer,
                  states |-> r.states, failed |-> r.failed,
                  panic |-> r.panic, n |-> r.n, winner |-> r.winner,
                  closeable |-> r.closeable, pulled |-> pos,
                  skipped |-> pos - Len(buff1)]
                 : r \in {resolve(ms, cs1, buff1, sts)}})
       : buff1 \in {Append(buff, input[pos])},
         cs1 \in {[j \in 1..Len(cs) |->
                     [i |-> cs[j].i,
                      previous_state |-> Matcher_state(cs[j].st),
                      st |-> Matcher_accept(ms[cs[j].i], cs[j].st,
                                            buff, input[pos])]]}})

\* the body of `for ch in source.chain(['\0'])`, from position pos of the
\* characters the iterator yields
RECURSIVE next_loop(_, _, _, _, _, _, _)
next_loop(ms, sts, input, pos, matching, buff, cs) ==
    IF pos > Len(input)
    THEN [kind |-> "none", val |-> Err("None", <<>>), buffer |-> buff,
          states |-> sts, failed |-> FALSE, panic |-> FALSE, n |-> 0,
          winner |-> 0, closeable |-> <<>>, pulled |-> Len(input),
          skipped |-> pos - 1 - Len(buff)]
    ELSE IF ~matching /\ (input[pos] = NUL
                           \/ (ignore_whitespace(get(sts)) /\ is_whitespace(input[pos])))
    THEN next_loop(ms, sts, input, pos + 1, matching, buff, cs)
    ELSE the({
       IF \E j \in 1..Len(cs1) : Matcher_state(cs1[j].st) = Panic
       THEN [kind |-> "panic", val |-> Err("Panic", <<>>), buffer |-> buff1,
             states |-> sts, failed |-> FALSE, panic |-> TRUE, n |-> 0,
             winner |-> 0, closeable |-> <<>>, pulled |-> pos,
             skipped |-> pos - Len(buff1)]
       ELSE IF ~all_broken(cs1)
       THEN the({next_loop(ms, sts, input, pos + 1, TRUE, buff1, cs2)
                 : cs2 \in {prune(cs1)}})
       ELSE the({[kind |-> r.kind, val |-> r.val, buffer |-> r.buffer,
                  states |-> r.states, failed |-> r.failed,
                  panic |-> r.panic, n |-> r.n, winner |-> r.winner,
                  closeable |-> r.closeable, pulled |-> pos,
                  skipped |-> pos - Len(buff1)]
                 : r \in {resolve(ms, cs1, buff1, sts)}})
       : buff1 \in {Append(buff, input[pos])},
         cs1 \in {[j \in 1..Len(cs) |->
                     [i |-> cs[j].i,
                      previous_state |-> Matcher_state(cs[j].st),
                      st |-> Matcher_accept(ms[cs[j].i], cs[j].st,
                                            Append(buff, input[pos]), input[pos])]]}})

\* Lexer::next on a lexer with the given fields.  The result says what was
\* returned (kind, val), the fields afterwards, and what the call did: mode
\* (the mode whose matchers and whitespace rule it used), skipped (leading characters skipped), read (the working buffer when the
\* call returned), n (n_consumed), winner and closeable (positions in the
\* mode's matcher list), dropped (carried-over characters the iterator never
\* yielded).
next(buff, src, sts, fail) ==
    IF fail \/ clean_buffer(buff) \o src = <<>>
    THEN [kind |-> "none", val |-> Err("None", <<>>), buffer |-> buff,
          source |-> src, states |-> sts, failed |-> fail,
          panic |-> FALSE, n |-> 0, winner |-> 0, closeable |-> <<>>,
          mode |-> get(sts), skipped |-> <<>>, read |-> <<>>,
          dropped |-> <<>>]
    ELSE the({
       the({[kind |-> r.kind, val |-> r.val, buffer |-> r.buffer,
             source |-> IF r.pulled - Len(starting_buffer) >= Len(src) THEN <<>>
                        ELSE IF r.pulled > Len(starting_buffer)
                        THEN SliceFrom(src, r.pulled - Len(starting_buffer))
                        ELSE src,
             states |-> r.states, failed |-> r.failed, panic |-> r.panic,
             n |-> r.n, winner |-> r.winner, closeable |-> r.closeable,
             mode |-> get(sts),
             skipped |-> SubSeq(input, 1, r.skipped),
             read |-> SubSeq(input, r.skipped + 1, r.pulled),
             dropped |-> IF r.pulled < Len(starting_buffer)
                         THEN SliceFrom(starting_buffer, r.pulled) ELSE <<>>]
            : r \in {next_loop(ms, sts, input, 1, FALSE, <<>>,
                               [j \in 1..Len(ms) |->
                                  [i |-> j, previous_state |-> "None",
                                   st |-> Matcher_new(ms[j])]])}})
       : ms \in {matchers(get(sts))},
         starting_buffer \in {clean_buffer(buff)},
         input \in {clean_buffer(buff) \o src \o <<NUL>>}})

(***************************************************************************)
(* The state machine.  source is what the character source still holds,    *)
(* buffer, states and failed are the fields of the Lexer, panicked says    *)
(* that a call panicked.  The other variables record the history of the    *)
(* calls: last is what the latest call to next returned and did, tick the  *)
(* parity of the number of calls, given the source the lexer was built on, *)
(* consumed the characters skipped or drained so far, interps one record   *)
(* for every DollarLeftBrace emitted, and yielded the first MaxResults     *)
(* items the iterator has yielded.                                         *)
(***************************************************************************)
MaxLen == 3

MaxInterp == 5

MaxRaw == 6

MaxComment == 4

MaxLive == 3

MaxWs == 4

MaxSeq == 3

MaxEscape == 3

MaxInvalid == 3

MaxNum == 4

MaxDollar == 4

MaxTokens == 4

MaxOperators == 3

MaxDigits == 4

MaxFeed == 4

MaxNest == 3

MaxQuoted == 2

MaxResults == 16

\* every text over the characters S of at most n characters
RECURSIVE TextsUpTo(_, _)
TextsUpTo(S, n) ==
    IF n = 0 THEN {<<>>}
    ELSE the({shorter \cup {Append(t, c) : t \in {u \in shorter : Len(u) = n - 1},
                                           c \in S}
              : shorter \in {TextsUpTo(S, n - 1)}})

\* The sources the lexer is run on: short texts over the characters that
\* start or make up every kind of token, longer texts inside an
\* interpolation, longer texts of pounds and backticks, and comments.
Alphabet == {"i", "f", "=", " ", "@", "\"", "\\"}

InterpFragments == {<<"\"">>, <<"$", "{">>, <<"{">>, <<"}">>}

\* every concatenation of at most n of the fragments F
RECURSIVE FragmentTexts(_, _)
FragmentTexts(F, n) ==
    IF n = 0 THEN {<<>>}
    ELSE the({shorter \cup {t \o f : t \in shorter, f \in F}
              : shorter \in {FragmentTexts(F, n - 1)}})

RawAlphabet == {"#", BACKTICK, "a"}

CommentAlphabet == {"/", "*", "\n", "a"}

Sources ==
    TextsUpTo(Alphabet, MaxLen)
    \cup {<<"\"", "$", "{">> \o t : t \in FragmentTexts(InterpFragments, MaxInterp)}
    \cup TextsUpTo(RawAlphabet, MaxRaw)
    \cup TextsUpTo(CommentAlphabet, MaxComment)

\* Sources of the Normal modes: words and operators between spaces and
\* tabs, at the top level and inside an interpolation.
WsAlphabet == {"i", "=", " ", "\t"}

interpolated(t) == <<"\"", "$", "{">> \o t \o <<"}", "\"">>

\* texts of simple_text matchers: operators that are the start of another
\* or of a comment opener, and keywords
FixedTexts == {<<"=">>, <<"=", "=">>, <<"!">>, <<"!", "=">>, <<"i", "f">>,
               <<"f", "n">>, <<"/">>, <<"*">>}

\* characters that start no token of the Normal modes, or that start one that
\* needs more, next to ones that do
InvalidAlphabet == {"@", "$", "#", "i", " "}

WordSources ==
    TextsUpTo(WsAlphabet, MaxWs)
    \cup {interpolated(t) : t \in TextsUpTo(WsAlphabet, MaxWs)}
    \cup FragmentTexts(FixedTexts, MaxSeq)
    \cup TextsUpTo(InvalidAlphabet, MaxInvalid)

\* Sources made of pieces of \u{4} and of one-character escapes, a space and
\* a letter, inside a string and at the top level.
EscapeFragments == {<<"\\">>, <<"\\", "u", "{">>, <<"u">>, <<"4">>, <<"}">>,
                    <<" ">>, <<"a">>}

\* the characters of an escaped dollar and of an interpolation opener
DollarAlphabet == {"\\", "$", "{", "a"}

EscapeSources ==
    FragmentTexts(EscapeFragments, MaxEscape)
    \cup {<<"\"">> \o t : t \in FragmentTexts(EscapeFragments, MaxEscape)}
    \cup {<<"\"">> \o t : t \in TextsUpTo(DollarAlphabet, MaxDollar)}

\* Sources of numbers: digits with a sign, a point, an exponent or radix
\* letter and a space between them, and strings of an escape or a space.
NumAlphabet == {"0", "1", "-", ".", "e", " "}

QuotedAlphabet == {"\\", "n", " ", "\""}

NumSources ==
    TextsUpTo(NumAlphabet, MaxNum)
    \cup {<<"\"">> \o t : t \in TextsUpTo(QuotedAlphabet, MaxQuoted)}

\* Sources of modes inside modes: after the opener of an interpolation,
\* the openers and closers of strings, interpolations, braces, raw strings
\* and comments.
NestFragments == {<<"\"">>, <<"$", "{">>, <<"{">>, <<"}">>, <<BACKTICK>>,
                  <<"/", "*">>, <<"*", "/">>}

NestSources ==
    {<<"\"", "$", "{">> \o t : t \in FragmentTexts(NestFragments, MaxNest)}

\* the sources of the runs whose end is checked: strings and escapes
LiveAlphabet == {"\"", "\\", "a", " "}

LiveSources == TextsUpTo(LiveAlphabet, MaxLive)

NoCall ==
    [kind |-> "init", val |-> Err("None", <<>>), mode |-> Normal(FALSE),
     depth |-> 1, after_err |-> FALSE, skipped |-> <<>>, read |-> <<>>,
     n |-> 0, winner |-> 0, closeable |-> <<>>, dropped |-> <<>>]

\* no lexer has been made; given is the input of the run, whatever is run
NoLexer ==
    /\ source = <<>>
    /\ buffer = <<>>
    /\ states = LexerStateManager_new
    /\ failed = FALSE
    /\ panicked = FALSE
    /\ last = NoCall
    /\ tick = 0
    /\ consumed = <<>>
    /\ interps = <<>>
    /\ yielded = <<>>

\* no parser has been made
NoParser ==
    /\ parser_source = <<>>
    /\ calls = <<>>
    /\ parsed = [kind |-> "idle"]
    /\ step = [at |-> "none"]

\* no function and no matcher is called by itself
NoUnit ==
    /\ number = [at |-> "none"]
    /\ probe = [at |-> "none"]

\* Lexer::new on one of the sources S
Lexer_new(S) ==
    /\ NoParser
    /\ NoUnit
    /\ source \in S
    /\ buffer = <<>>
    /\ states = LexerStateManager_new
    /\ failed = FALSE
    /\ panicked = FALSE
    /\ last = NoCall
    /\ tick = 0
    /\ given = source
    /\ consumed = <<>>
    /\ interps = <<>>
    /\ yielded = <<>>

Init == Lexer_new(Sources)

LiveInit == Lexer_new(LiveSources)

WordInit == Lexer_new(WordSources)

EscapeInit == Lexer_new(EscapeSources)

NumInit == Lexer_new(NumSources)

NestInit == Lexer_new(NestSources)

\* the characters a call has used up: the ones it skipped and, for a token,
\* the n_consumed ones it drained from the working buffer
used_up(r) ==
    remove_char(r.skipped, NUL)
    \o (IF r.kind = "ok" THEN remove_char(SubSeq(r.read, 1, r.n), NUL) ELSE <<>>)

\* The record of every interpolation after a call: rec.d is the depth of the
\* CompositeString its DollarLeftBrace was emitted from; lb and rb count the
\* LeftBrace and RightBrace tokens emitted in Normal(true) and dlb the
\* DollarLeftBrace tokens emitted since then, until the stack is back at
\* depth d (back), which the token `by` brought about.
track(recs, r, depth) ==
    LET kind == IF r.kind = "ok" THEN r.val.kind ELSE "None"
        in_interp == r.mode = Normal(TRUE)
        Count(rec) ==
            IF rec.back \/ r.kind # "ok" THEN rec
            ELSE [d |-> rec.d,
                  lb |-> rec.lb + (IF in_interp /\ kind = "LeftBrace" THEN 1 ELSE 0),
                  rb |-> rec.rb + (IF in_interp /\ kind = "RightBrace" THEN 1 ELSE 0),
                  dlb |-> rec.dlb + (IF kind = "DollarLeftBrace" THEN 1 ELSE 0),
                  back |-> Len(r.states) = rec.d,
                  by |-> IF Len(r.states) = rec.d THEN kind ELSE rec.by]
        counted == [i \in 1..Len(recs) |-> Count(recs[i])]
    IN IF kind = "DollarLeftBrace"
       THEN Append(counted, [d |-> depth, lb |-> 0, rb |-> 0, dlb |-> 0,
                             back |-> FALSE, by |-> "None"])
       ELSE counted

Lexer_next ==
    /\ ~panicked
    /\ \E r \in {next(buffer, source, states, failed)} :
          /\ source' = r.source
          /\ buffer' = r.buffer
          /\ states' = r.states
          /\ failed' = r.failed
          /\ panicked' = r.panic
          /\ last' = [kind |-> r.kind, val |-> r.val, mode |-> r.mode,
                      depth |-> Len(states),
                      after_err |-> last.after_err \/ last.kind = "err",
                      skipped |-> r.skipped, read |-> r.read, n |-> r.n,
                      winner |-> r.winner, closeable |-> r.closeable,
                      dropped |-> r.dropped]
          /\ consumed' = consumed \o used_up(r)
          /\ interps' = track(interps, r, Len(states))
          /\ yielded' = IF r.kind \in {"ok", "err"} /\ Len(yielded) < MaxResults
                        THEN Append(yielded, [kind |-> r.kind, val |-> r.val])
                        ELSE yielded
    /\ tick' = 1 - tick
    /\ UNCHANGED given
    /\ UNCHANGED parser_vars
    /\ UNCHANGED unit_vars

Next == Lexer_next

Spec == Init /\ [][Next]_vars

\* the caller keeps calling next
FairSpec == LiveInit /\ [][Next]_vars /\ WF_vars(Next)

WordSpec == WordInit /\ [][Next]_vars

EscapeSpec == EscapeInit /\ [][Next]_vars

NumSpec == NumInit /\ [][Next]_vars

NestSpec == NestInit /\ [][Next]_vars

\* Lexer::new(source.chars()).collect(): what the iterator yields until its
\* first None, at most fuel items
RECURSIVE collect_from(_, _, _, _, _)
collect_from(buff, src, sts, fail, fuel) ==
    IF fuel = 0 THEN <<>>
    ELSE the({IF r.kind \notin {"ok", "err"} THEN <<>>
              ELSE <<[kind |-> r.kind, val |-> r.val]>>
                   \o collect_from(r.buffer, r.source, r.states, r.failed, fuel - 1)
              : r \in {next(buff, src, sts, fail)}})

collect(src) == collect_from(<<>>, src, LexerStateManager_new, FALSE, MaxResults)

(***************************************************************************)
(* parser/binding.rs, parser/expressions.rs, parser/mod.rs                 *)
(***************************************************************************)
\* enum BindingPower, in the order its derive(PartialOrd, Ord) gives
BindingPower(name) ==
    CASE name = "Default" -> 0
      [] name = "Literal" -> 1
      [] name = "Conditional" -> 2
      [] name = "Additive" -> 3
      [] name = "Multiplicative" -> 4
      [] name = "Prefix" -> 5
      [] name = "Postfix" -> 6
      [] name = "Call" -> 7

\* a comparison that lets an equal binding power through
bp_ge(bp, min_bp) == BindingPower(bp) >= BindingPower(min_bp)

\* parselet.bp() > &min_bp
bp_gt(bp, min_bp) == BindingPower(bp) > BindingPower(min_bp)

Expression_Literal(k, v) == [e |-> "Literal", k |-> k, v |-> v]

Expression_Binary(op, left, right) ==
    [e |-> "Binary", op |-> op, left |-> left, right |-> right]

ParseOk(e) == [ok |-> TRUE, val |-> e]

ParseError(kind, what) == [ok |-> FALSE, err |-> [kind |-> kind, what |-> what]]

\* expressions::nud gives a parselet for the token
has_nud(token) ==
    token.kind \in {"Null", "BoolLiteral", "IntLiteral", "FloatLiteral",
                    "StringLiteral"}

\* NUD::parse of the parselet expressions::nud gives for the token
NUD_parse(token) ==
    CASE token.kind = "Null" -> ParseOk(Expression_Literal("Null", <<>>))
      [] token.kind = "BoolLiteral" ->
            ParseOk(Expression_Literal("Bool", token.text))
      [] token.kind = "IntLiteral" ->
            the({IF r.ok THEN ParseOk(Expression_Literal("Int", <<r.val>>))
                 ELSE ParseError("Number", <<r.err.kind>>)
                 : r \in {parse_int(token.text)}})
      [] token.kind = "FloatLiteral" ->
            the({IF r.ok THEN ParseOk(Expression_Literal("Float", r.val))
                 ELSE ParseError("Number", <<r.err.kind>>)
                 : r \in {parse_float(token.text)}})
      [] token.kind = "StringLiteral" ->
            ParseOk(Expression_Literal("Text", token.text))

\* expressions::led gives a parselet for the token
has_led(token) == token.kind \in {"Plus", "Asterisk"}

\* the binding power and the operation of the parselet expressions::led gives
led(token) ==
    CASE token.kind = "Plus" -> [bp |-> "Additive", op |-> "Sum"]
      [] token.kind = "Asterisk" -> [bp |-> "Multiplicative", op |-> "Multiply"]

\* an activation of parse_expression_capped: at "nud" before its first
\* token, at "loop" in its while loop, at "led" while the LED of the
\* operation op parses the right operand
Frame(min_bp) ==
    [min_bp |-> min_bp, at |-> "nud", left |-> [e |-> "none"], op |-> "none"]

\* the tokens of the parser's tests and some that have no parselet or do not
\* parse
IntToken(digits) == Tok("IntLiteral", digits)

TokenAlphabet ==
    {IntToken(<<"1">>), IntToken(<<"x">>), Tok("Null", <<>>), Tok("Plus", <<>>),
     Tok("Asterisk", <<>>), Tok("Minus", <<>>)}

Operators == {Tok("Plus", <<>>), Tok("Asterisk", <<>>)}

\* the literal tokens an operand at position i is drawn from
Operands(i) == {IntToken(<<ToString(i)>>), Tok("Null", <<>>)}

\* literals separated by n operators, the first operand at position i
RECURSIVE OperandTexts(_, _)
OperandTexts(i, n) ==
    IF n = 0 THEN {<<a>> : a \in Operands(i)}
    ELSE {<<a, o>> \o t : a \in Operands(i), o \in Operators,
                          t \in OperandTexts(i + 1, n - 1)}

TokenSources ==
    TextsUpTo(TokenAlphabet, MaxTokens)
    \cup UNION {OperandTexts(1, n) : n \in 0..MaxOperators}

\* Parser::new on one of the token sequences T, with no lexer at work
Parser_new(T) ==
    /\ NoLexer
    /\ NoUnit
    /\ parser_source \in T
    /\ given = parser_source
    /\ calls = <<>>
    /\ parsed = [kind |-> "idle"]
    /\ step = [at |-> "none"]

ParserInit == Parser_new(TokenSources)

lexer_vars == <<source, buffer, states, failed, panicked, last, tick, given,
                consumed, interps, yielded>>

\* Parser::parse_expression: the call of parse_expression_capped(Default)
Parser_parse_expression ==
    /\ calls = <<>>
    /\ calls' = <<Frame("Default")>>
    /\ parsed' = [kind |-> "running", from |-> parser_source]
    /\ step' = [at |-> "call"]
    /\ UNCHANGED parser_source
    /\ UNCHANGED <<lexer_vars, unit_vars>>

\* an Err leaves every activation through `?`
fails(err, at, peek) ==
    /\ calls' = <<>>
    /\ parsed' = [kind |-> "err", err |-> err, from |-> parsed.from]
    /\ step' = [at |-> at, peek |-> peek, min_bp |-> Head(calls).min_bp,
                left |-> Head(calls).left,
                consumed |-> Len(parser_source) - Len(parser_source'),
                result |-> "err", val |-> err]

\* return Ok(left): the value goes to the parse_expression call, or to the
\* LED of the caller, which makes its Binary the caller's left
returns(value, peek) ==
    /\ IF Tail(calls) = <<>>
       THEN /\ calls' = <<>>
            /\ parsed' = [kind |-> "ok", val |-> value, from |-> parsed.from]
       ELSE /\ calls' = <<[calls[2] EXCEPT
                             !.left = Expression_Binary(calls[2].op, calls[2].left,
                                                        value),
                             !.at = "loop", !.op = "none"]>>
                        \o Tail(Tail(calls))
            /\ UNCHANGED parsed
    /\ step' = [at |-> "loop", peek |-> peek, min_bp |-> Head(calls).min_bp,
                left |-> Head(calls).left, consumed |-> 0,
                result |-> "ok", val |-> value]

\* parse_expression_capped up to its loop: consume, nud, parselet.parse
Parser_nud ==
    /\ calls # <<>> /\ Head(calls).at = "nud"
    /\ IF parser_source = <<>>
       THEN /\ UNCHANGED parser_source
            /\ fails([kind |-> "ExpectedAny", what |-> <<>>], "nud", <<>>)
       ELSE \E token \in {Head(parser_source)} :
              /\ parser_source' = Tail(parser_source)
              /\ IF ~has_nud(token)
                 THEN fails([kind |-> "InvalidToken", what |-> <<token>>], "nud",
                            <<token>>)
                 ELSE \E r \in {NUD_parse(token)} :
                        IF ~r.ok THEN fails(r.err, "nud", <<token>>)
                        ELSE /\ calls' = <<[Head(calls) EXCEPT !.left = r.val,
                                                               !.at = "loop"]>>
                                         \o Tail(calls)
                             /\ step' = [at |-> "nud", peek |-> <<token>>,
                                         min_bp |-> Head(calls).min_bp,
                                         left |-> Head(calls).left, consumed |-> 1,
                                         result |-> "left", val |-> r.val]
                             /\ UNCHANGED parsed
    /\ UNCHANGED <<lexer_vars, unit_vars>>

\* one turn of `while let Some(token) = self.peek()`, or the return after it
Parser_loop ==
    /\ calls # <<>> /\ Head(calls).at = "loop"
    /\ IF parser_source = <<>>
       THEN /\ UNCHANGED parser_source
            /\ returns(Head(calls).left, <<>>)
       ELSE \E token \in {Head(parser_source)} :
              IF ~has_led(token)
              THEN /\ UNCHANGED parser_source
                   /\ fails([kind |-> "InvalidToken", what |-> <<token>>], "loop",
                            <<token>>)
              ELSE IF bp_gt(led(token).bp, Head(calls).min_bp)
              THEN /\ parser_source' = Tail(parser_source)
                   /\ calls' = <<Frame(led(token).bp),
                                 [Head(calls) EXCEPT !.op = led(token).op,
                                                     !.at = "led"]>>
                               \o Tail(calls)
                   /\ step' = [at |-> "loop", peek |-> <<token>>,
                               min_bp |-> Head(calls).min_bp,
                               left |-> Head(calls).left, consumed |-> 1,
                               result |-> "led", val |-> led(token)]
                   /\ UNCHANGED parsed
              ELSE /\ UNCHANGED parser_source
                   /\ returns(Head(calls).left, <<token>>)
    /\ UNCHANGED <<lexer_vars, unit_vars>>

ParserNext == Parser_parse_expression \/ Parser_nud \/ Parser_loop

ParserSpec == ParserInit /\ [][ParserNext]_vars

(***************************************************************************)
(* parsing::parse_int called by itself                                     *)
(***************************************************************************)
\* digits of radix 2 and 16, a radix letter, a letter that is no radix, a
\* sign and the underscore
NumberTexts == TextsUpTo({"0", "1", "b", "x", "-", "_"}, MaxDigits)

\* the text s with one more underscore, at any place
Underscored(s) ==
    {SubSeq(s, 1, k) \o <<"_">> \o SubSeq(s, k + 1, Len(s)) : k \in 0..Len(s)}

NumberInit ==
    /\ NoLexer /\ NoParser
    /\ given = <<>>
    /\ probe = [at |-> "none"]
    /\ number \in {[at |-> "new", text |-> s] : s \in NumberTexts}

\* parse_int(source) on the text, as it is or with one more underscore
parse_int_call ==
    /\ number.at = "new"
    /\ \E src \in {number.text} \cup Underscored(number.text) :
          number' = [at |-> "parsed", text |-> number.text, source |-> src,
                     result |-> parse_int(src)]
    /\ UNCHANGED <<lexer_vars, parser_vars, probe>>

NumberNext == parse_int_call

NumberSpec == NumberInit /\ [][NumberNext]_vars

(***************************************************************************)
(* A matcher called by itself, as the tests of lexer/matchers.rs do:       *)
(* Context::matcher_accept pushes the character and calls accept,          *)
(* Context::close calls close on the buffer with a new mode stack.         *)
(***************************************************************************)
\* the matchers that are called: every constructor, alone and in chains
ProbeMatchers ==
    LET IsA == [p |-> "eq", c |-> "a"]
        IsB == [p |-> "eq", c |-> "b"]
        NotWhitespace == [p |-> "not_whitespace"]
        AsToken == [c |-> "token", kind |-> "Matched"]
        AsString == [c |-> "string"]
    IN
    <<DefaultMatcher_text(<<>>, AsToken),
      DefaultMatcher_text(<<"a">>, AsToken),
      DefaultMatcher_text(<<"a", "b">>, AsToken),
      DefaultMatcher_text(<<"a", "a", "b">>, AsToken),
      DefaultMatcher_conditions(<<>>, AsToken),
      DefaultMatcher_conditions(<<NotWhitespace>>, AsToken),
      DefaultMatcher_conditions(<<IsA, [p |-> "whitespace"]>>, AsToken),
      DefaultMatcher_conditions(<<NotWhitespace, NotWhitespace, IsB>>, AsToken),
      DefaultMatcher_take_while(IsA, 0, AsToken),
      DefaultMatcher_take_while(IsA, 1, AsToken),
      DefaultMatcher_take_while(NotWhitespace, 2, AsToken),
      DefaultMatcher_take_while([p |-> "true"], 3, AsToken),
      DefaultMatcher_collector(<<<<"b">>>>, FALSE, AsToken),
      DefaultMatcher_collector(<<<<"b">>>>, TRUE, AsToken),
      DefaultMatcher_filtered_collector(<<<<"a", "b">>>>, NotWhitespace, FALSE,
                                        AsToken),
      DefaultMatcher_filtered_collector(<<<<"a", "b">>, <<" ">>>>, [p |-> "true"],
                                        TRUE, AsToken),
      ChainMatcher_new(<<DefaultMatcher_fixed_text(<<"a">>),
                         DefaultMatcher_take_while(IsB, 1, AsString)>>, AsToken),
      ChainMatcher_new(<<DefaultMatcher_take_while(IsA, 1, AsString),
                         DefaultMatcher_fixed_text(<<"b">>)>>, AsToken),
      ChainMatcher_new(<<DefaultMatcher_take_while(IsA, 0, AsString),
                         DefaultMatcher_fixed_text(<<"b">>)>>, AsToken),
      ChainMatcher_new(<<DefaultMatcher_take_while(NotWhitespace, 2, AsString),
                         DefaultMatcher_take_while([p |-> "whitespace"], 1,
                                                   AsString)>>, AsToken),
      ChainMatcher_new(<<DefaultMatcher_fixed_text(<<"a">>),
                         DefaultMatcher_collector(<<<<"b">>>>, TRUE, AsString)>>,
                       AsToken),
      ChainMatcher_new(<<DefaultMatcher_fixed_text(<<"a">>),
                         DefaultMatcher_fixed_text(<<"b">>),
                         DefaultMatcher_take_while(IsA, 1, AsString)>>, AsToken),
      ChainMatcher_new(<<DefaultMatcher_fixed_text(<<"a">>),
                         DefaultMatcher_take_while(IsB, 0, AsString),
                         DefaultMatcher_fixed_text(<<"a">>)>>, AsToken),
      ChainMatcher_new(<<DefaultMatcher_fixed_text(<<"a", "a">>),
                         DefaultMatcher_fixed_text(<<"b">>),
                         DefaultMatcher_take_while(IsA, 1, AsString)>>, AsToken),
      ChainMatcher_new(<<DefaultMatcher_conditions(<<[p |-> "true"]>>,
                                                   [c |-> "parse_unicode"]),
                         DefaultMatcher_take_while([p |-> "true"], 1,
                                                   [c |-> "parse_unicode"])>>,
                       [c |-> "push", mode |-> CompositeString,
                        tok |-> Tok("Matched", <<>>)])>>

\* the characters that are fed: two letters, a space and the NUL
FeedTexts == TextsUpTo({"a", "b", " ", NUL}, MaxFeed)

\* a matcher as constructed, and the characters it is going to be fed
ProbeInit ==
    /\ NoLexer /\ NoParser
    /\ number = [at |-> "none"]
    /\ given \in FeedTexts
    /\ probe \in {[at |-> "matcher", i |-> i,
                    st |-> Matcher_new(ProbeMatchers[i]),
                    prev |-> Matcher_new(ProbeMatchers[i]),
                    buff |-> <<>>, rest |-> given]
                   : i \in 1..Len(ProbeMatchers)}

\* Context::matcher_accept: buffer.push(ch); matcher.accept(&buffer, ch)
probe_accept ==
    /\ probe.at = "matcher"
    /\ probe.rest # <<>>
    /\ probe.st.value # Panic
    /\ \E ch \in {Head(probe.rest)}, m \in {ProbeMatchers[probe.i]} :
          \E st \in {Matcher_accept(m, probe.st, Append(probe.buff, ch), ch)} :
             probe' = [probe EXCEPT
                         !.buff = Append(probe.buff, ch),
                         !.rest = Tail(probe.rest),
                         !.prev = probe.st,
                         !.st = st]
    /\ UNCHANGED <<lexer_vars, parser_vars, number>>

\* what ChainMatcher::close gets from its sub-matchers (`results`)
sub_results(m, st, buff, sts) ==
    IF m.kind = "chain"
    THEN close_subs(m, st, buff, Append(st.buffer_indexes, Len(buff)), 1,
                    [results |-> <<>>, sts |-> sts, panic |-> FALSE])
    ELSE [results |-> <<>>, sts |-> sts, panic |-> FALSE]

\* Context::close: matcher.close(&buffer, &mut LexerStateManager::new())
probe_close ==
    /\ probe.at = "matcher"
    /\ probe.st.value = Closeable
    /\ \E result \in {Matcher_close(ProbeMatchers[probe.i], probe.st,
                                     probe.buff, LexerStateManager_new)} :
          probe' = [at |-> "closed", i |-> probe.i, st |-> probe.st,
                    prev |-> probe.prev, buff |-> probe.buff,
                    rest |-> probe.rest, result |-> result]
    /\ UNCHANGED <<lexer_vars, parser_vars, number>>

ProbeNext == probe_accept \/ probe_close

ProbeSpec == ProbeInit /\ [][ProbeNext]_vars

(***************************************************************************)
(* Properties of Lexer::next                                               *)
(***************************************************************************)
\* the characters of the token the latest call emitted
lexeme == SubSeq(last.read, 1, last.n)

\* the characters the lexer has still to look at
pending == clean_buffer(buffer) \o source

emitted(kind) == last.kind = "ok" /\ last.val.kind = kind

\* C1: once next has returned Some(Err(_)), every later call returns None,
\* whatever is left in the source or in the carry-over buffer.
C1_NoneAfterError == last.after_err => last.kind = "none"

\* a call after an error returned None although characters were left
C1_Witness == last.after_err /\ last.kind = "none" /\ pending # <<>>

\* C2: on every source, repeated calls to next reach the end of the stream:
\* the stream of tokens is finite.
C2_StreamEnds == <>(last.kind = "none")

\* the state of matcher m after it has been offered the characters of txt
\* from the k-th on, one by one; a Broken matcher is offered nothing more
RECURSIVE offered(_, _, _, _)
offered(m, st, txt, k) ==
    IF k > Len(txt) \/ Matcher_state(st) = Broken THEN st
    ELSE offered(m, Matcher_accept(m, st, SubSeq(txt, 1, k), txt[k]), txt, k + 1)

state_on(m, txt) == Matcher_state(offered(m, Matcher_new(m), txt, 1))

\* the working buffer of the latest call without its last character
matched == SubSeq(last.read, 1, Len(last.read) - 1)

\* C3: maximal munch.  When next returns a token, the winning matcher is
\* Closeable on the working buffer without its last character and every
\* matcher of the mode is Broken on the whole working buffer; a Broken
\* matcher is offered nothing more, so none is Closeable on a longer piece of
\* the pending input.
C3_MaximalMunch ==
    last.kind = "ok" =>
        LET ms == matchers(last.mode)
        IN /\ last.winner \in 1..Len(ms)
           /\ state_on(ms[last.winner], matched) = Closeable
           /\ \A j \in 1..Len(ms) : state_on(ms[j], last.read) = Broken

\* the identifier iff was emitted although the keyword if matched its start
C3_Witness ==
    /\ emitted("Identifier") /\ lexeme = <<"i", "f", "f">>
    /\ state_on(matchers(last.mode)[30], <<"i", "f">>) = Closeable

\* texts of the Normal modes that are exactly a keyword or an operator
FixedKind(txt) ==
    CASE txt = <<"i", "f">> -> "If"
      [] txt = <<"=">> -> "Equal"
      [] txt = <<"=", "=">> -> "DoubleEqual"
      [] txt = <<"{">> -> "LeftBrace"
      [] txt = <<"/">> -> "Slash"
      [] txt = <<"*">> -> "Asterisk"
      [] OTHER -> "None"

\* the close token C4 gives for a terminator of a mode
CloseKind(mode, txt) ==
    CASE mode.m = "CompositeString" /\ txt = <<"\"">> -> "StringClose"
      [] mode.m = "CompositeString" /\ txt = <<"$", "{">> -> "DollarLeftBrace"
      [] mode.m = "RawString"
         /\ txt = <<BACKTICK>> \o [i \in 1..mode.pounds |-> "#"] -> "StringClose"
      [] mode.m = "Comment" /\ txt = mode.terminator -> "CommentClose"
      [] mode.m = "Normal" -> FixedKind(txt)
      [] OTHER -> "None"

\* C4: when a Fixed matcher is among the candidates that were Closeable before
\* the breaking character, the winner is Fixed: a text that is exactly a
\* keyword or operator gives its token and not Identifier, and a terminator
\* of CompositeString, RawString or Comment gives the close token and not an
\* empty literal.
C4_FixedWins ==
    last.winner # 0 =>
        LET ms == matchers(last.mode)
        IN /\ (\E j \in 1..Len(last.closeable) : ms[last.closeable[j]].class = Fixed)
                  => ms[last.winner].class = Fixed
           /\ CloseKind(last.mode, matched) # "None"
                  => emitted(CloseKind(last.mode, matched))

\* the closing quote won over the collector that was Closeable with it
C4_Witness ==
    /\ emitted("StringClose") /\ last.mode = CompositeString
    /\ \E j \in 1..Len(last.closeable) :
          matchers(last.mode)[last.closeable[j]].class = Dynamic

\* C5: a token removes exactly its n_consumed characters from the working
\* buffer and carries the rest over, and over the calls made so far every
\* character of the source has been used up once and in order, or is still
\* in the carry-over or the source: the characters used up followed by the
\* pending ones are the source.
C5_Conservation ==
    /\ consumed \o pending = given
    /\ last.dropped = <<>>
    /\ last.kind = "ok" =>
          /\ last.n <= Len(last.read)
          /\ buffer = SubSeq(last.read, last.n + 1, Len(last.read))

\* a token that is not the first was emitted and two characters are carried
\* over
C5_Witness ==
    /\ last.kind = "ok" /\ last.n >= 1
    /\ Len(clean_buffer(buffer)) >= 2
    /\ consumed # lexeme

\* begins(s, t): the text s begins with the text t
begins(s, t) == Len(t) <= Len(s) /\ SubSeq(s, 1, Len(t)) = t

\* C6: a call of next that looks at characters lexes them, the carry-over
\* first, under the mode on top of the stack as the previous call left it:
\* its matchers are the ones of that mode and it skips leading whitespace
\* only when that mode is a Normal one.
C6_ModeInEffect ==
    [][last'.kind \in {"ok", "err"} =>
          /\ last'.mode = Head(states)
          /\ last'.winner \in 0..Len(matchers(Head(states)))
          /\ begins(pending \o <<NUL>>, last'.skipped \o last'.read)
          /\ remove_char(last'.skipped, NUL) # <<>> => Head(states).m = "Normal"]_vars

\* the space carried over after an opening quote is the content of the string
C6_Witness ==
    /\ emitted("StringLiteral") /\ last.mode = CompositeString
    /\ lexeme = <<" ">> /\ last.skipped = <<>>
    /\ given = <<"\"", " ", "\"">>

\* C7: the mode stack is never empty and its bottom is Normal(false).
C7_BottomIsNormal ==
    /\ Len(states) >= 1
    /\ states[Len(states)] = Normal(FALSE)

\* the stack has been three deep and is back at its bottom
C7_Witness ==
    /\ Len(states) = 1
    /\ last.kind = "ok" /\ last.depth = 2
    /\ \E i \in 1..Len(interps) : interps[i].back

\* the change of depth that C8 gives for a token emitted in a mode
depth_change(kind, mode) ==
    CASE kind \in {"StringOpen", "LineCommentOpen", "BlockCommentOpen",
                   "DollarLeftBrace"} -> 1
      [] kind = "LeftBrace" /\ mode = Normal(TRUE) -> 1
      [] kind \in {"StringClose", "CommentClose"} -> -1
      [] kind = "RightBrace" /\ mode = Normal(TRUE) -> -1
      [] OTHER -> 0

\* the mode C8 says a token pushes
pushed_mode(kind, txt) ==
    CASE kind = "StringOpen" ->
            IF txt = <<"\"">> THEN CompositeString ELSE RawString(Len(txt) - 1)
      [] kind = "LineCommentOpen" -> Comment(<<"\n">>)
      [] kind = "BlockCommentOpen" -> Comment(<<"*", "/">>)
      [] OTHER -> Normal(TRUE)

\* C8: a token changes the depth of the mode stack by +1 (the opening tokens
\* and LeftBrace in Normal(true), which push the mode of their kind), by -1
\* (StringClose, CommentClose, and RightBrace in Normal(true)) or by 0 (every
\* other token, LeftBrace and RightBrace in Normal(false) among them).
C8_DepthChange ==
    last.kind = "ok" =>
        /\ Len(states) = last.depth + depth_change(last.val.kind, last.mode)
        /\ depth_change(last.val.kind, last.mode) = 1 =>
               get(states) = pushed_mode(last.val.kind, lexeme)

\* a LeftBrace inside an interpolation made the stack deeper
C8_Witness ==
    /\ emitted("LeftBrace") /\ last.mode = Normal(TRUE)
    /\ Len(states) = last.depth + 1

\* C9 as it is stated: the stack is back at the depth of the CompositeString
\* of a DollarLeftBrace exactly at the first RightBrace for which the
\* RightBrace tokens emitted in Normal(true) since then outnumber the
\* LeftBrace tokens emitted in Normal(true) since then.
C9_BraceBalance ==
    \A i \in 1..Len(interps) :
        /\ interps[i].back <=> interps[i].rb > interps[i].lb
        /\ interps[i].back => interps[i].by = "RightBrace"

\* C9, amended: the stack is back at the depth of the CompositeString of a
\* DollarLeftBrace exactly at the first RightBrace for which the RightBrace
\* tokens emitted in Normal(true) since then outnumber the LeftBrace tokens
\* emitted in Normal(true) and the DollarLeftBrace tokens emitted since then.
C9_NestedBraceBalance ==
    \A i \in 1..Len(interps) :
        /\ interps[i].back <=> interps[i].rb > interps[i].lb + interps[i].dlb
        /\ interps[i].back =>
              /\ interps[i].by = "RightBrace"
              /\ interps[i].rb = interps[i].lb + interps[i].dlb + 1

\* an interpolation that held a string with an interpolation is closed
C9_Witness ==
    \E i \in 1..Len(interps) :
        /\ interps[i].back /\ interps[i].dlb >= 1
        /\ interps[i].rb = interps[i].lb + interps[i].dlb + 1

\* a backtick followed by n pounds
closing(n) == <<BACKTICK>> \o [i \in 1..n |-> "#"]

\* the places of the text s at which the text t occurs
occurrences(s, t) ==
    {k \in 1..Len(s) : k + Len(t) - 1 <= Len(s) /\ SubSeq(s, k, k + Len(t) - 1) = t}

\* C10: in RawString(n) a StringLiteral ends where a backtick followed by n
\* pounds first occurs (a backtick followed by fewer is content) or, without
\* one, at the end of the source; only StringClose pops the mode and it is
\* exactly the backtick and the n pounds; n is the number of pounds before
\* the opening backtick.
C10_RawString ==
    /\ (last.kind = "ok" /\ last.mode.m = "RawString") =>
          LET t == closing(last.mode.pounds)
              whole == lexeme \o pending
          IN /\ last.val.kind \in {"StringLiteral", "StringClose"}
             /\ emitted("StringLiteral") =>
                   /\ last.val.text = lexeme
                   /\ Len(states) = last.depth
                   /\ IF occurrences(whole, t) = {} THEN pending = <<>>
                      ELSE \A k \in occurrences(whole, t) : k > Len(lexeme)
                   /\ occurrences(whole, t) # {} => begins(pending, t)
             /\ emitted("StringClose") =>
                   /\ lexeme = t
                   /\ last.n = last.mode.pounds + 1
                   /\ Len(states) = last.depth - 1
    /\ (last.mode.m = "RawString" /\ last.kind # "ok") => Len(states) = last.depth
    /\ (emitted("StringOpen") /\ get(states).m = "RawString") =>
          lexeme = [i \in 1..get(states).pounds |-> "#"] \o <<BACKTICK>>

\* the content of a raw string opened with a pound holds a backtick
C10_Witness ==
    /\ emitted("StringLiteral") /\ last.mode.m = "RawString"
    /\ last.mode.pounds >= 1
    /\ \E k \in 1..Len(lexeme) : lexeme[k] = BACKTICK
    /\ begins(pending, closing(last.mode.pounds))

\* the terminators of a mode that is not a Normal one
mode_terminators(mode) ==
    CASE mode.m = "CompositeString" -> StringTerminators
      [] mode.m = "RawString" -> <<closing(mode.pounds)>>
      [] mode.m = "Comment" -> <<mode.terminator>>
      [] OTHER -> <<>>

\* txt is not empty and holds no terminator of the mode, which is not Normal
unterminated(mode, txt) ==
    /\ mode.m # "Normal"
    /\ txt # <<>>
    /\ \A i \in 1..Len(mode_terminators(mode)) :
          occurrences(txt, mode_terminators(mode)[i]) = {}

literal_kind(mode) == IF mode.m = "Comment" THEN "CommentLiteral" ELSE "StringLiteral"

\* C11: when the top mode is CompositeString, RawString or Comment and what
\* is left of the input is not empty and holds no terminator of the mode, the
\* next call emits all of it as one StringLiteral (CommentLiteral in a
\* comment) without an error and leaves the mode stack as it is, and the call
\* after that returns None, again with the stack as it is: no close token is
\* emitted.
C11_UnterminatedTail ==
    [][/\ unterminated(get(states), pending) =>
             /\ last'.kind = "ok"
             /\ last'.val = Tok(literal_kind(get(states)), pending)
             /\ states' = states
             /\ pending' = <<>>
             /\ ~failed'
       /\ (/\ emitted(literal_kind(last.mode))
           /\ last.mode.m # "Normal"
           /\ pending = <<>>) =>
             /\ last'.kind = "none"
             /\ states' = states]_vars

\* the block comment a* was emitted whole and the stream ended in the comment
C11_Witness ==
    /\ given = <<"/", "*", "a", "*">>
    /\ last.kind = "none" /\ ~failed
    /\ get(states) = Comment(<<"*", "/">>)
    /\ consumed = given

\* the last character a call read is the NUL that follows the source
read_to_end(r) == r.read # <<>> /\ r.read[Len(r.read)] = NUL

\* the matchers of the list ms that are Closeable once offered txt
closeable_on(ms, txt) == {j \in 1..Len(ms) : state_on(ms[j], txt) = Closeable}

\* C12: when a call reads on to the end of the source and a matcher of the
\* mode that is still in the running is Closeable on what was read, the NUL
\* that follows breaks every matcher and the call returns what the close of
\* one of these Closeable matchers gives on the text before the NUL, its
\* token or its error, with the mode stack as that close leaves it: the call
\* does not return None.
C12_EndClosesMatch ==
    [][LET ms == matchers(get(states))
           txt == SubSeq(last'.read, 1, Len(last'.read) - 1)
       IN (read_to_end(last') /\ closeable_on(ms, txt) # {}) =>
             /\ last'.kind \in {"ok", "err"}
             /\ last'.winner \in closeable_on(ms, txt)
             /\ \A j \in 1..Len(ms) : state_on(ms[j], last'.read) = Broken
             /\ \E r \in {Matcher_close(ms[last'.winner],
                                        offered(ms[last'.winner],
                                                Matcher_new(ms[last'.winner]), txt, 1),
                                        txt, states)} :
                   /\ last'.kind = IF r.ok THEN "ok" ELSE "err"
                   /\ last'.val = r.val
                   /\ states' = r.sts]_vars

\* the source if ended on a keyword that the identifier matched as well
C12_Witness ==
    /\ emitted("If") /\ last.read = <<"i", "f", NUL>>
    /\ source = <<>>
    /\ Len(last.closeable) = 2

\* the text s without its leading whitespace
RECURSIVE trim_start(_)
trim_start(s) ==
    IF s # <<>> /\ is_whitespace(Head(s)) THEN trim_start(Tail(s)) ELSE s

\* the text s with every run of whitespace between two other characters
\* replaced by one space, and the runs at its start and at its end removed
RECURSIVE squeeze(_)
squeeze(s) ==
    IF trim_start(s) = <<>> THEN <<>>
    ELSE IF is_whitespace(Head(s)) THEN squeeze(trim_start(s))
    ELSE IF Len(s) > 1 /\ is_whitespace(s[2]) /\ trim_start(Tail(s)) # <<>>
    THEN <<Head(s), " ">> \o squeeze(trim_start(Tail(s)))
    ELSE <<Head(s)>> \o squeeze(Tail(s))

\* a source with the whitespace that is lexed in a Normal mode squeezed: all
\* of it, or what stands inside the interpolation
squeezed(src) ==
    IF begins(src, <<"\"", "$", "{">>)
    THEN interpolated(squeeze(SubSeq(src, 4, Len(src) - 2)))
    ELSE squeeze(src)

\* the tokens among the items the iterator yielded
RECURSIVE ok_tokens(_)
ok_tokens(rs) ==
    IF rs = <<>> THEN <<>>
    ELSE (IF Head(rs).kind = "ok" THEN <<Head(rs).val>> ELSE <<>>)
         \o ok_tokens(Tail(rs))

\* the stream has given all it gives
ended == last.kind = "none" /\ Len(yielded) < MaxResults

RECURSIVE whitespace_of(_)
whitespace_of(s) ==
    IF s = <<>> THEN <<>>
    ELSE (IF is_whitespace(Head(s)) THEN <<Head(s)>> ELSE <<>>)
         \o whitespace_of(Tail(s))

\* txt is a terminator of the mode
is_terminator(mode, txt) ==
    \E i \in 1..Len(mode_terminators(mode)) : mode_terminators(mode)[i] = txt

matcher_text(m) == [i \in 1..Len(m.state.subs) |-> m.state.subs[i].pred.c]

\* the token of the Fixed matcher of Normal(false) whose text is txt
fixed_token(txt) ==
    LET ms == matchers_Normal_false
        j == CHOOSE j \in 1..Len(ms) : ms[j].class = Fixed /\ matcher_text(ms[j]) = txt
    IN closer(ms[j].closer, txt, <<>>, LexerStateManager_new).val

\* every way to cut txt into texts of FixedTexts
RECURSIVE splits(_)
splits(txt) ==
    IF txt = <<>> THEN {<<>>}
    ELSE UNION {{<<t>> \o rest : rest \in splits(SubSeq(txt, Len(t) + 1, Len(txt)))}
                : t \in {u \in FixedTexts : begins(txt, u)}}

\* a matcher of Normal(false) is Closeable on a followed by a piece of b:
\* the two texts combine into a longer match
combine(a, b) ==
    \E k \in 1..Len(b) :
        closeable_on(matchers_Normal_false, a \o SubSeq(b, 1, k)) # {}

unambiguous(seq) == \A i \in 1..(Len(seq) - 1) : ~combine(seq[i], seq[i + 1])

invalid_token == last.kind = "err" /\ last.val.kind = "InvalidToken"

\* C16 as it is stated: InvalidToken is returned only when no matcher of the
\* mode was Closeable on a piece, however short, of what the call read.
C16_NoMatchDiscarded ==
    invalid_token =>
        \A k \in 1..Len(last.read) :
            closeable_on(matchers(last.mode), SubSeq(last.read, 1, k)) = {}

\* C16, amended: a call that has read characters returns InvalidToken exactly
\* when none of the matchers still in the running was Closeable on what was
\* read without the last character; what a matcher that broke earlier had
\* matched does not count.
C16_LastStepDecides ==
    (last.kind \in {"ok", "err"}) =>
        (invalid_token <=> closeable_on(matchers(last.mode), matched) = {})

\* InvalidToken although matchers were Closeable on shorter pieces: the
\* collector on the backslash and the escape chain on \u
C16_Witness ==
    /\ invalid_token /\ last.mode = CompositeString
    /\ begins(last.read, <<"\\", "u", "{">>)
    /\ closeable_on(matchers(last.mode), <<"\\">>) # {}
    /\ closeable_on(matchers(last.mode), <<"\\", "u">>) # {}

\* a resolving call found no candidate that was Closeable before the
\* character that broke them all
none_closeable ==
    /\ last.kind \in {"ok", "err"}
    /\ closeable_on(matchers(last.mode), matched) = {}

\* C17 as it is stated: the InvalidToken of such a call carries the working
\* buffer without its last character, and the lexer has failed.
C17_WithoutLastCharacter ==
    none_closeable =>
        /\ invalid_token
        /\ last.val.text = matched
        /\ failed

\* C17, amended: the InvalidToken of such a call carries the whole working
\* buffer, the character that broke every matcher included; only when that
\* character is the NUL after the end of the source is it left out.  The
\* lexer has failed.
C17_WholeBuffer ==
    none_closeable =>
        /\ invalid_token
        /\ last.val.text = IF last.read[Len(last.read)] = NUL THEN matched
                           ELSE last.read
        /\ failed

\* the letter that broke the raw string opener is part of the text
C17_Witness ==
    /\ invalid_token /\ failed
    /\ last.read = <<"#", "a">>
    /\ last.val.text = <<"#", "a">>

\* no matcher of the mode accepts ch as a first character
starts_nothing(mode, ch) ==
    \A j \in 1..Len(matchers(mode)) : state_on(matchers(mode)[j], <<ch>>) = Broken

\* C18: in a Normal mode, when the first character a call does not skip is
\* one that no matcher accepts as a first character, the call returns
\* InvalidToken with that character alone as its text and reads no further,
\* whatever follows; and the text of an InvalidToken holds no NUL.
C18_InvalidCharacter ==
    /\ (last.read # <<>> /\ last.mode.m = "Normal"
        /\ starts_nothing(last.mode, last.read[1])) =>
            /\ invalid_token
            /\ last.val.text = <<last.read[1]>>
            /\ last.read = <<last.read[1]>>
    /\ invalid_token => \A k \in 1..Len(last.val.text) : last.val.text[k] # NUL

\* a dollar outside a string, with a brace after it that was not read
C18_Witness ==
    /\ invalid_token /\ last.val.text = <<"$">>
    /\ last.mode = Normal(FALSE)
    /\ source # <<>>

\* the candidates of the matcher list ms once offered the text read, with the
\* state each had on the text without its last character
candidates_on(ms, read) ==
    [j \in 1..Len(ms) |->
        [i |-> j,
         previous_state |-> state_on(ms[j], SubSeq(read, 1, Len(read) - 1)),
         st |-> offered(ms[j], Matcher_new(ms[j]), read, 1)]]

\* the winners of the selection on the text read, in the order of the sort
selected_on(ms, read) ==
    LET Closed(c) == c.previous_state = Closeable
    IN sort_by_class(ms, SelectSeq(candidates_on(ms, read), Closed))

close_on(ms, j, txt, sts) ==
    Matcher_close(ms[j], offered(ms[j], Matcher_new(ms[j]), txt, 1), txt, sts)

\* C19: when every matcher of the mode is Broken on what a call read and the
\* close of the first of the sorted winners fails on the text before the
\* last character, the call returns that error and nothing else, whether
\* or not the close of another winner would succeed; the lexer has failed,
\* the working buffer is kept whole, and the next call returns None.
C19_CloseErrorLatches ==
    [][LET ms == matchers(get(states))
           txt == SubSeq(last'.read, 1, Len(last'.read) - 1)
           sel == selected_on(ms, last'.read)
       IN (/\ last'.read # <<>>
           /\ \A j \in 1..Len(ms) : state_on(ms[j], last'.read) = Broken
           /\ sel # <<>>) =>
            \E r \in {close_on(ms, Head(sel).i, txt, states)} :
               (~r.ok /\ ~r.panic) =>
                  /\ last'.kind = "err"
                  /\ last'.val = r.val
                  /\ last'.winner = Head(sel).i
                  /\ failed'
                  /\ buffer' = last'.read
                  /\ Len(yielded) < MaxResults =>
                        yielded' = Append(yielded, [kind |-> "err", val |-> r.val])
                  /\ next(buffer', source', states', failed').kind = "none"]_vars

\* the latest call returned the number error why
number_error(why) ==
    /\ last.kind = "err" /\ last.val.kind = "NumberParse"
    /\ last.val.why = why

\* 1e1 is the float 10 and no integer: the integer literal is the first of
\* the two winners, and its error is the only thing the lexer yields
C19_Witness ==
    /\ given = <<"1", "e", "1">>
    /\ number_error("InvalidInt")
    /\ Len(last.closeable) = 2
    /\ \E j \in 1..Len(last.closeable) :
          close_on(matchers(last.mode), last.closeable[j], matched, states).ok
    /\ Len(yielded) = 1
    /\ buffer = <<"1", "e", "1", NUL>>

has_point(txt) == \E k \in 1..Len(txt) : txt[k] = "."

\* what parsing the text of a number gives: parse_float with a point in it,
\* parse_int without
parse_number(txt) == IF has_point(txt) THEN parse_float(txt) ELSE parse_int(txt)

escaped_dollar(l) ==
    /\ l.mode = CompositeString
    /\ Len(l.read) = 3 /\ SubSeq(l.read, 1, 2) = <<"\\", "$">>

\* C21: a call in CompositeString whose text is a backslash and a dollar
\* returns StringLiteral("$"), consumes the two characters and leaves the
\* mode stack as it was; when a '{' follows, it is carried over and the next
\* call returns a StringLiteral whose text starts with it.  DollarLeftBrace
\* is only returned by a call whose own text starts with the dollar.
C21_EscapedDollar ==
    [][/\ escaped_dollar(last') =>
            /\ last'.kind = "ok"
            /\ last'.val = Tok("StringLiteral", <<"$">>)
            /\ last'.n = 2
            /\ states' = states
            /\ buffer' = <<last'.read[3]>>
            /\ last'.read[3] = "{" =>
                  \E r \in {next(buffer', source', states', failed')} :
                     /\ r.kind = "ok" /\ r.val.kind = "StringLiteral"
                     /\ r.val.text # <<>> /\ Head(r.val.text) = "{"
                     /\ r.states = states
       /\ (last'.kind = "ok" /\ last'.val.kind = "DollarLeftBrace") =>
            SubSeq(last'.read, 1, 2) = <<"$", "{">>]_vars

\* the brace after an escaped dollar has been returned as string content
C21_Witness ==
    /\ given = <<"\"", "\\", "$", "{", "a">>
    /\ emitted("StringLiteral") /\ last.val.text = <<"{", "a">>
    /\ states = <<CompositeString, Normal(FALSE)>>
    /\ Len(yielded) = 3

(***************************************************************************)
(* Properties of Parser::parse_expression                                  *)
(***************************************************************************)
\* literals that parse, separated by Plus and Asterisk
is_operands(toks) ==
    /\ Len(toks) % 2 = 1
    /\ \A i \in 1..Len(toks) :
          IF i % 2 = 1 THEN has_nud(toks[i]) /\ NUD_parse(toks[i]).ok
          ELSE toks[i] \in Operators

\* the last position of a token of the kind in toks, or 0
last_of(toks, kind) ==
    LET at == {i \in 1..Len(toks) : toks[i].kind = kind}
    IN IF at = {} THEN 0 ELSE CHOOSE i \in at : \A j \in at : j <= i

\* the tree of the grammar sum ::= sum + product | product,
\* product ::= product * literal | literal
RECURSIVE tree(_)
tree(toks) ==
    LET plus == last_of(toks, "Plus")
        times == last_of(toks, "Asterisk")
    IN IF plus # 0
       THEN Expression_Binary("Sum", tree(SubSeq(toks, 1, plus - 1)),
                              tree(SubSeq(toks, plus + 1, Len(toks))))
       ELSE IF times # 0
       THEN Expression_Binary("Multiply", tree(SubSeq(toks, 1, times - 1)),
                              tree(SubSeq(toks, times + 1, Len(toks))))
       ELSE NUD_parse(toks[1]).val

Literal_Int(n) == Expression_Literal("Int", <<n>>)

\* C22: parse_expression on literals separated by Plus and Asterisk succeeds,
\* uses up every token, and returns the tree in which Asterisk binds tighter
\* than Plus and operators of the same binding power group to the left.
C22_BindingPowerTree ==
    (parsed.kind \in {"ok", "err"} /\ is_operands(parsed.from)) =>
        /\ parsed.kind = "ok"
        /\ parsed.val = tree(parsed.from)
        /\ parser_source = <<>>

\* 1 + 2 * 3 + 4 has been parsed to Sum(Sum(1, Multiply(2, 3)), 4)
C22_Witness ==
    /\ given = <<IntToken(<<"1">>), Tok("Plus", <<>>), IntToken(<<"2">>),
                 Tok("Asterisk", <<>>), IntToken(<<"3">>), Tok("Plus", <<>>),
                 IntToken(<<"4">>)>>
    /\ parsed.kind = "ok" /\ parsed.from = given
    /\ parsed.val =
          Expression_Binary("Sum",
              Expression_Binary("Sum", Literal_Int(1),
                                Expression_Binary("Multiply", Literal_Int(2), Literal_Int(3))),
              Literal_Int(4))

\* the latest step was a turn of the loop that found an LED of a binding
\* power strictly greater than the minimum of its activation
led_binds_tighter ==
    /\ step.peek # <<>>
    /\ has_led(step.peek[1])
    /\ bp_gt(led(step.peek[1]).bp, step.min_bp)

\* C23: a turn of the loop of parse_expression_capped consumes the next token
\* when that token has an LED of a binding power strictly greater than the
\* current minimum; in every other case it consumes nothing and the
\* activation returns the accumulated left subtree as a success.
C23_LoopStops ==
    step.at = "loop" =>
        IF led_binds_tighter
        THEN step.consumed = 1 /\ step.result = "led"
        ELSE /\ step.consumed = 0
             /\ step.result = "ok"
             /\ step.val = step.left

(***************************************************************************)
(* Properties of parsing::parse_int                                        *)
(***************************************************************************)
\* C24: parse_int gives the same result, value or error, on a text and on
\* the text with an underscore inserted at any place; as the texts range
\* over those that hold underscores already, this covers any number of
\* insertions.
C24_UnderscoreInvariant ==
    number.at = "parsed" => number.result = parse_int(number.text)

\* 0x1 with an underscore before the radix letter is still the integer 1
C24_Witness ==
    /\ number.at = "parsed"
    /\ number.text = <<"0", "x", "1">>
    /\ number.source = <<"0", "_", "x", "1">>
    /\ number.result.ok /\ number.result.val = 1

(***************************************************************************)
(* Properties of the matchers (lexer/matchers.rs), each called by itself   *)
(***************************************************************************)
\* the matcher that is called, and the manager of its state
probed == ProbeMatchers[probe.i]

\* C25: once the state of a matcher is Broken nothing makes it Open or
\* Closeable again: close is not called on it, and an accept panics and
\* leaves everything the manager holds as it was.
C25_BrokenAbsorbing ==
    probe.at # "none" =>
        /\ probe.prev.value = Broken =>
              probe.st = [probe.prev EXCEPT !.value = Panic]
        /\ probe.at = "closed" => probe.st.value = Closeable

\* take_while(a) broken by b and fed an a, which its filter would take
C25_Witness ==
    /\ probe.at = "matcher"
    /\ probe.i = 10
    /\ probe.buff = <<"b", "a">>
    /\ probe.prev.value = Broken
    /\ probe.st.value = Panic

\* C26: a matcher of any kind that is Open or Closeable and accepts the NUL
\* character gets Broken, and nothing else of its state changes: no
\* predicate is asked, no count moves, no chain switches.
C26_NulBreaks ==
    (/\ probe.at # "none"
     /\ probe.buff # <<>>
     /\ probe.buff[Len(probe.buff)] = NUL
     /\ probe.prev.value \in {Open, Closeable})
        => probe.st = [probe.prev EXCEPT !.value = Broken]

\* take_while(true, 3), whose filter holds of the NUL, is broken by it
C26_Witness ==
    /\ probe.at = "matcher"
    /\ probe.i = 12
    /\ probe.buff = <<"a", NUL>>
    /\ probe.prev.value = Open
    /\ probe.st.value = Broken /\ probe.st.count = 1

\* character j of the buffer is a character the predicate takes
fits(pred, buff, j) == buff[j] # NUL /\ Eval(pred, SubSeq(buff, 1, j), buff[j])

\* what a sequence of k predicates makes of a buffer
sequence_state(preds, buff) ==
    LET k == Len(preds)
        n == Len(buff)
        in_place(m) == m <= k /\ \A j \in 1..m : fits(preds[j], buff, j)
    IN IF in_place(n) THEN (IF n = k THEN Closeable ELSE Open)
       ELSE IF in_place(n - 1) THEN Broken
       ELSE Panic

is_sequence(m) == m.kind = "default" /\ m.state.k = "chain"

\* C27: a text of k characters, or k conditions, is Open after each of the
\* first k - 1 matching characters, Closeable after k of them, Broken at
\* the first character that does not match its place and at any character
\* after the k-th; with k = 0 it is Closeable at first and Broken at the
\* first character.  (Any accept after that panics.)
C27_TextStates ==
    (probe.at # "none" /\ is_sequence(probed)) =>
        probe.st.value =
            sequence_state([j \in 1..Len(probed.state.subs) |->
                               probed.state.subs[j].pred], probe.buff)

\* the text ab, Closeable after ab, is Broken by one more a
C27_Witness ==
    /\ probe.at = "matcher"
    /\ probe.i = 3
    /\ probe.buff = <<"a", "b", "a">>
    /\ probe.prev.value = Closeable
    /\ probe.st.value = Broken

\* what take_while(filter, min) makes of a buffer
while_state(filter, min, buff) ==
    LET n == Len(buff)
        held(m) == \A j \in 1..m : fits(filter, buff, j)
    IN IF held(n) THEN (IF n < min THEN Open ELSE Closeable)
       ELSE IF held(n - 1) THEN Broken
       ELSE Panic

\* C28: take_while(p, min) is Open while it has accepted fewer than min
\* characters, Closeable from min characters on (at once when min = 0) and
\* for as long as the characters satisfy p, and Broken at the first
\* character of which p fails (or that is the NUL).
C28_TakeWhileStates ==
    (probe.at # "none" /\ probed.kind = "default"
     /\ probed.state.k = "take_while") =>
        probe.st.value =
            while_state(probed.state.filter, probed.state.min, probe.buff)

\* take_while(not whitespace, 2): Closeable after ab and still after aba
C28_Witness ==
    /\ probe.at = "matcher"
    /\ probe.i = 11
    /\ probe.buff = <<"a", "b", "a">>
    /\ probe.prev.value = Closeable
    /\ probe.st.value = Closeable

\* the first m characters all satisfy the filter and end no terminator
collecting(md, buff, m) ==
    \A j \in 1..m :
        /\ fits(md.filter, buff, j)
        /\ \A t \in 1..Len(md.terminators) :
              ~ends_with(SubSeq(buff, 1, j), md.terminators[t])

\* character m satisfies the filter and completes the first terminator
terminates(md, buff, m) ==
    /\ m >= 1
    /\ collecting(md, buff, m - 1)
    /\ fits(md.filter, buff, m)
    /\ \E t \in 1..Len(md.terminators) :
          ends_with(SubSeq(buff, 1, m), md.terminators[t])

\* C29: a filtered_collector is Open while the filter holds and no
\* terminator has been completed, Closeable at the character that completes
\* the first terminator, Broken at any character after that one and at a
\* character of which the filter fails.  Its close hands the buffer without
\* the terminator at its end to the closer and consumes the buffer without
\* the terminator, or the whole buffer when consume_terminator is set.
C29_CollectorStates ==
    (probe.at # "none" /\ probed.kind = "default"
     /\ probed.state.k = "collector") =>
        LET md == probed.state
            buff == probe.buff
            n == Len(buff)
        IN /\ probe.st.value = Open <=> collecting(md, buff, n)
           /\ probe.st.value = Closeable <=> terminates(md, buff, n)
           /\ probe.st.value = Broken <=>
                 \/ n >= 1 /\ collecting(md, buff, n - 1)
                          /\ ~fits(md.filter, buff, n)
                 \/ terminates(md, buff, n - 1)
           /\ probe.at = "closed" =>
                 \E t \in 1..Len(md.terminators) :
                    /\ ends_with(buff, md.terminators[t])
                    /\ probe.result.ok
                    /\ probe.result.val =
                          Tok("Matched",
                              SubSeq(buff, 1, n - Len(md.terminators[t])))
                    /\ probe.result.n =
                          IF probed.close.consume_terminator THEN n
                          ELSE n - Len(md.terminators[t])

\* the collector up to ab that leaves the terminator: closed on aab, it
\* hands over a and consumes one character
C29_Witness ==
    /\ probe.at = "closed"
    /\ probe.i = 15
    /\ probe.buff = <<"a", "a", "b">>
    /\ probe.result.val = Tok("Matched", <<"a">>)
    /\ probe.result.n = 1

\* the same collector is Broken by the character after the terminator
C29_Broken ==
    /\ probe.at = "matcher"
    /\ probe.i = 15
    /\ probe.buff = <<"a", "b", "a">>
    /\ probe.prev.value = Closeable
    /\ probe.st.value = Broken

\* the last accept moved the chain to another sub-matcher
switched ==
    /\ probe.at # "none"
    /\ probed.kind = "chain"
    /\ probe.st.value # Panic
    /\ probe.st.current # probe.prev.current

\* C30 as stated: a chain passes control from m_i to m_(i+1) at a character
\* offered to an already Closeable m_i that breaks it, and the buffer of
\* m_(i+1) starts at that character.
C30_SwitchOnBreak ==
    switched =>
        LET i == probe.prev.current
            n == Len(probe.buff)
        IN /\ probe.prev.subs[i].value = Closeable
           /\ accept(probed.state.subs[i], probe.prev.subs[i],
                     SliceFrom(probe.buff, buffer_start(probe.prev)),
                     probe.buff[n]).value = Broken
           /\ buffer_start(probe.st) = n - 1

\* C30: a chain passes control from m_i to m_(i+1) at the character that
\* makes m_i Closeable: a sub-matcher that has a successor is never offered
\* a character once a character has made it Closeable, that character is
\* not offered to m_(i+1), and after the first switch the buffer of m_2
\* starts after that character.  Only the last sub-matcher, and one that is
\* Closeable as constructed, is offered a character when Closeable.
C30_SwitchOnCloseable ==
    (probe.at # "none" /\ probed.kind = "chain" /\ probe.st.value # Panic) =>
        LET st == probe.st
            prev == probe.prev
        IN /\ \A j \in 1..(Len(st.subs) - 1) :
                 st.subs[j].value = Closeable =>
                    \/ st.current > j
                    \/ st.subs[j] = new(probed.state.subs[j])
           /\ \A j \in 1..Len(st.subs) :
                 j < prev.current => st.subs[j] = prev.subs[j]
           /\ switched =>
                 /\ st.current = prev.current + 1
                 /\ \/ prev.subs[prev.current].value = Open
                    \/ prev.subs[prev.current] =
                          new(probed.state.subs[prev.current])
                 /\ st.subs[prev.current].value = Closeable
                 /\ st.subs[st.current] = prev.subs[st.current]
                 /\ buffer_start(prev) = 0 =>
                       buffer_start(st) = Len(probe.buff)

\* take_while(a, 1) followed by the text b: the first a passes control to
\* the text, which the second a breaks
C30_Witness ==
    /\ probe.at = "matcher"
    /\ probe.i = 18
    /\ probe.buff = <<"a", "a">>
    /\ probe.st.current = 2
    /\ probe.st.subs[1].m.count = 1
    /\ probe.st.value = Broken

\* C31: a chain is Closeable only when its last sub-matcher is the current
\* one and is Closeable, every sub-matcher having been given an offset; as
\* long as an earlier sub-matcher is current the chain is Open or Broken.
C31_CloseableAtLast ==
    (probe.at # "none" /\ probed.kind = "chain"
     /\ probe.st.value = Closeable) =>
        LET N == Len(probed.matchers)
        IN /\ probe.st.current = N
           /\ probe.st.subs[N].value = Closeable
           /\ Len(probe.st.buffer_indexes) = N

\* a, take_while(b, 0), a: the first a makes the chain Closeable with its
\* second sub-matcher current and two offsets out of three recorded
C31_CloseableMiddle ==
    /\ probe.at = "matcher"
    /\ probe.i = 23
    /\ probe.buff = <<"a">>
    /\ probe.st.value = Closeable
    /\ probe.st.current = 2
    /\ probe.st.buffer_indexes = <<0, 1>>

\* what the close of the chain that was closed got from its sub-matchers
handed == sub_results(probed, probe.st, probe.buff, LexerStateManager_new)

\* C32: the close of a Closeable chain splits the buffer at the recorded
\* offsets into one slice for each sub-matcher, the slices following one
\* another from the start of the buffer to its end; sub-matcher i is closed
\* on slice i, the outer closer gets the whole buffer and the results in
\* the order of the sub-matchers, and the whole buffer is consumed.
C32_CloseSplits ==
    (probe.at = "closed" /\ probed.kind = "chain") =>
        LET N == Len(probed.matchers)
            buff == probe.buff
            offsets == Append(probe.st.buffer_indexes, Len(buff))
        IN /\ ~probe.result.panic
           /\ Len(offsets) = N + 1
           /\ offsets[1] = 0
           /\ \A i \in 1..N : offsets[i] <= offsets[i + 1]
           /\ Len(handed.results) = N
           /\ \A i \in 1..N :
                 handed.results[i] =
                    Matcher_close(probed.matchers[i], probe.st.subs[i].m,
                                  Slice(buff, offsets[i], offsets[i + 1]),
                                  LexerStateManager_new)
           /\ (\A i \in 1..N : handed.results[i].ok) =>
                 /\ probe.result.ok
                 /\ probe.result.val =
                       closer(probed.closer, buff,
                              [i \in 1..N |-> handed.results[i].val],
                              LexerStateManager_new).val
                 /\ probe.result.n = Len(buff)

\* aa, b, take_while(a, 1) on aaba: the offsets are 0, 2, 1 and the close
\* panics on the slice from 2 to 1
C32_BackwardSlice ==
    /\ probe.at = "closed"
    /\ probe.i = 24
    /\ probe.buff = <<"a", "a", "b", "a">>
    /\ probe.st.buffer_indexes = <<0, 2, 1>>
    /\ probe.result.panic

\* a chain of two: a, take_while(b, 1) on abb is closed on a and bb
C32_TwoSlices ==
    /\ probe.at = "closed"
    /\ probe.i = 17
    /\ probe.buff = <<"a", "b", "b">>
    /\ probe.st.buffer_indexes = <<0, 1>>
    /\ handed.results[1].val = <<"a">>
    /\ handed.results[2].val = <<"b", "b">>
    /\ probe.result.n = 3

\* the sub-matchers whose close failed
failing_subs == {i \in 1..Len(handed.results) : ~handed.results[i].ok}

\* C33: when the close of a sub-matcher of a chain fails, the close of the
\* chain returns the error of the first sub-matcher that failed, as it is,
\* and the outer closer is not called (here it would push a mode).
C33_FirstSubError ==
    (/\ probe.at = "closed"
     /\ probed.kind = "chain"
     /\ ~handed.panic
     /\ failing_subs # {}) =>
        /\ ~probe.result.ok
        /\ \E f \in failing_subs :
              /\ \A i \in failing_subs : f <= i
              /\ probe.result.val = handed.results[f].val
        /\ probe.result.sts = LexerStateManager_new

\* two hexadecimal texts, closed on a space and on "a ": both fail, and the
\* error is the one of the first
C33_Witness ==
    /\ probe.at = "closed"
    /\ probe.i = 25
    /\ probe.buff = <<" ", "a", " ">>
    /\ failing_subs = {1, 2}
    /\ handed.results[2].val.text = <<"a", " ">>
    /\ probe.result.val =
          [kind |-> "UnicodeParse", text |-> <<" ">>, why |-> "InvalidHex"]

(***************************************************************************)
(* Properties of the driver (Lexer::next) on numbers and strings           *)
(***************************************************************************)
\* the text is a run of ASCII digits
digit_run(txt) == txt # <<>> /\ \A k \in 1..Len(txt) : is_ascii_digit(txt[k])

\* the candidates Closeable before the breaking character whose closer is c
closeable_with(c) ==
    {j \in 1..Len(last.closeable) :
        matchers(last.mode)[last.closeable[j]].closer.c = c}

\* C34: when no Fixed matcher is among the candidates that were Closeable
\* before the breaking character, the winner is the one of them that comes
\* first in the matcher list of the mode; a run of digits in a Normal mode,
\* on which the integer and the float matcher are both Closeable, gives
\* IntLiteral.
C34_EarliestDynamic ==
    last.winner # 0 =>
        LET ms == matchers(last.mode)
        IN /\ (\A j \in 1..Len(last.closeable) :
                  ms[last.closeable[j]].class = Dynamic) =>
                 /\ \E j \in 1..Len(last.closeable) :
                       last.closeable[j] = last.winner
                 /\ \A j \in 1..Len(last.closeable) :
                       last.winner <= last.closeable[j]
           /\ (last.mode.m = "Normal" /\ digit_run(matched)) =>
                 /\ closeable_with("parse_int") # {}
                 /\ closeable_with("parse_float") # {}
                 /\ last.kind = "ok"
                 /\ last.val.kind = "IntLiteral"

\* 10 is the integer ten, with the float matcher Closeable on it too
C34_Witness ==
    /\ given = <<"1", "0">>
    /\ last.kind = "ok"
    /\ last.val = NumTok("IntLiteral", 10)
    /\ closeable_with("parse_float") # {}
    /\ Len(last.closeable) >= 2

\* C35: a call that returns a token removes at least one character from
\* the working buffer, so that what is pending gets shorter with every
\* token, and no token of no character, such as a StringLiteral without
\* content, is returned.
C35_TokenConsumes ==
    last.kind = "ok" =>
        /\ last.n >= 1
        /\ Len(buffer) < Len(last.read)
        /\ last.val # Tok("StringLiteral", <<>>)

\* the string that ends with a backslash: an empty StringLiteral that
\* consumes nothing and leaves the backslash in the working buffer
C35_EmptyLiteral ==
    /\ last.kind = "ok"
    /\ last.mode = CompositeString
    /\ last.val = Tok("StringLiteral", <<>>)
    /\ last.n = 0
    /\ last.read = <<"\\", NUL>>
    /\ buffer = last.read

\* C36: no call to next makes a matcher accept a character when it is
\* Broken, so that the panic of accept is never what ends a call (a call
\* that panics does so in the close of its winner), and the candidates are
\* never all gone while characters are read: after every character but
\* the last one read, a matcher of the mode is still Open or Closeable.
C36_NoAcceptOnBroken ==
    /\ last.kind = "panic" => last.winner # 0
    /\ \A k \in 1..(Len(last.read) - 1) :
          \E j \in 1..Len(matchers(last.mode)) :
             state_on(matchers(last.mode)[j], SubSeq(last.read, 1, k))
                \in {Open, Closeable}

\* a call that read three characters or more, with matchers that the first
\* character broke and were offered nothing after it
C36_Witness ==
    /\ last.kind = "ok"
    /\ Len(last.read) >= 3
    /\ \E j \in 1..Len(matchers(last.mode)) :
          state_on(matchers(last.mode)[j], SubSeq(last.read, 1, 1)) = Broken
    /\ ~panicked

\* the latest call returned a token whose closer pops a mode
popped ==
    \/ emitted("StringClose")
    \/ emitted("CommentClose")
    \/ emitted("RightBrace") /\ last.mode = Normal(TRUE)

\* C37: no closer pops the only mode of the stack: no call panics, and a
\* StringClose, a CommentClose or a RightBrace of an interpolation is
\* returned by a call that found two modes or more, and that leaves one
\* fewer.
C37_PopHasTwo ==
    /\ ~panicked /\ last.kind # "panic"
    /\ popped => last.depth >= 2 /\ Len(states) = last.depth - 1

\* the brace that closes an interpolation takes the stack from three modes
\* back to the two of the string
C37_Witness ==
    /\ emitted("RightBrace")
    /\ last.mode = Normal(TRUE)
    /\ last.depth = 3
    /\ states = <<CompositeString, Normal(FALSE)>>

\* C38: the shape of the mode stack.  RawString and Comment are at the top
\* only; a CompositeString lies directly above a Normal mode; a
\* Normal(true) lies directly above a CompositeString or another
\* Normal(true); Normal(false) is the bottom and nothing else is.
C38_StackShape ==
    \A i \in 1..Len(states) :
       /\ states[i].m \in {"RawString", "Comment"} => i = 1
       /\ states[i].m = "CompositeString" =>
             i < Len(states) /\ states[i + 1].m = "Normal"
       /\ states[i] = Normal(TRUE) =>
             /\ i < Len(states)
             /\ \/ states[i + 1].m = "CompositeString"
                \/ states[i + 1] = Normal(TRUE)
       /\ states[i] = Normal(FALSE) <=> i = Len(states)

\* a comment inside a brace inside an interpolation inside a string
C38_Witness ==
    /\ Len(states) = 5
    /\ states[1].m \in {"RawString", "Comment"}
    /\ states[2] = Normal(TRUE)
    /\ states[3] = Normal(TRUE)
    /\ states[4] = CompositeString
    /\ states[5] = Normal(FALSE)

\* C39: a call that returns an error, InvalidToken or the error of a
\* close, leaves the mode stack as it found it.
C39_ErrorKeepsStack ==
    [][last'.kind = "err" => states' = states]_vars

\* \u{} inside a string: the close of the chain fails in its collector,
\* and the stack is still the one of the string
C39_Witness ==
    /\ last.kind = "err"
    /\ last.val.kind = "UnicodeParse"
    /\ last.mode = CompositeString
    /\ last.depth = 2
    /\ states = <<CompositeString, Normal(FALSE)>>

\* the state of matcher m after it has been offered the characters of txt
\* from the k-th on, each with the characters before it as the buffer
RECURSIVE offered_before(_, _, _, _)
offered_before(m, st, txt, k) ==
    IF k > Len(txt) \/ Matcher_state(st) = Broken THEN st
    ELSE offered_before(m, Matcher_accept(m, st, SubSeq(txt, 1, k - 1), txt[k]),
                        txt, k + 1)

\* the matchers of the mode of the latest call, by their place in the list
places == [j \in 1..Len(matchers(last.mode)) |-> j]

\* C40 as stated: the buffer handed to accept with a character is what the
\* matcher has been offered before that character.  So the candidates that
\* were Closeable before the breaking character are the matchers that get
\* Closeable when offered the matched text in that way.
C40_BufferWithoutCh ==
    last.kind \in {"ok", "err"} =>
        LET ms == matchers(last.mode)
            Closed(j) ==
                Matcher_state(offered_before(ms[j], Matcher_new(ms[j]),
                                             matched, 1)) = Closeable
        IN last.closeable = SelectSeq(places, Closed)

\* C40: the buffer handed to accept with a character is what the matcher
\* has been offered up to and including that character (for a sub-matcher
\* of a chain, from the offset at which it took over).  So the candidates
\* that were Closeable before the breaking character are the matchers that
\* get Closeable when offered the matched text in that way.
C40_BufferHoldsCh ==
    last.kind \in {"ok", "err"} =>
        LET ms == matchers(last.mode)
            Closed(j) == state_on(ms[j], matched) = Closeable
        IN last.closeable = SelectSeq(places, Closed)

\* 1e: the digits predicate of the integer matcher asks for a digit when the
\* buffer has one character, which is so at the 1 and not at the e
C40_Witness ==
    /\ given = <<"1", "e">>
    /\ last.read = <<"1", "e", NUL>>
    /\ closeable_with("parse_int") # {}
    /\ number_error("InvalidInt")
    /\ \E j \in 1..Len(matchers(last.mode)) :
          /\ matchers(last.mode)[j].closer.c = "parse_int"
          /\ Matcher_state(offered_before(matchers(last.mode)[j],
                                          Matcher_new(matchers(last.mode)[j]),
                                          matched, 1)) = Broken

====
